---------------------------- MODULE Spec2Model ----------------------------
(***************************************************************************)
(* Model of the ODRL validate-and-regenerate loop                          *)
(* (agents/validator/validator_agent.py) and of the SHACL validation tool  *)
(* it drives (agents/validator/odrl_validation_tool.py).                   *)
(*                                                                         *)
(* A Turtle text is a sequence of lines.  A line is a record whose "kind"  *)
(* says what the line is: explanatory prose, a markdown code fence, a      *)
(* blank line, the @prefix block, or the description of one graph node     *)
(* (an odrl:Policy or an odrl:Constraint with the properties the SHACL     *)
(* shapes look at).                                                        *)
(***************************************************************************)
EXTENDS Integers, Sequences, FiniteSets, TLC

VARIABLES
    policy_text,        \* argument policy_text
    max_attempts,       \* argument max_attempts
    odrl_turtle,        \* local odrl_turtle: the current candidate document
    attempt,            \* local attempt
    all_attempts,       \* local all_attempts
    validation_result,  \* local validation_result (None before the first pass)
    attempt_info,       \* local attempt_info (None while unbound)
    pc,                 \* position inside validate_and_regenerate
    outcome,            \* what the caller gets: None, a returned dict or an exception
    validations,        \* number of validator_tool.validate_kg calls made
    llm_calls,          \* number of llm.invoke calls made
    llm_prompts,        \* the grouped issues of every prompt handed to llm.invoke
    reasoner_call,      \* the call made on a function of the library: function and argument
    reasoner_result,    \* what that call gave: None before it ran, a return or an exception
    cancel_requested,   \* the caller of the session has asked for its cancellation
    workers,            \* the concurrent sessions of one agent: worker -> its arguments and locals
    registry            \* what the concurrent sessions share: the validator list and the tables

vars == << policy_text, max_attempts, odrl_turtle, attempt, all_attempts,
           validation_result, attempt_info, pc, outcome, validations,
           llm_calls, llm_prompts, reasoner_call, reasoner_result,
           cancel_requested, workers, registry >>

\* what a step of the repair session leaves alone
other_vars == << reasoner_call, reasoner_result, cancel_requested, workers,
                 registry >>

\* Python's None, and an unbound local
None == [none |-> TRUE]

\* A key that a violation dict does not hold
Absent == "<absent>"

(***************************************************************************)
(* Bounds of the model                                                     *)
(***************************************************************************)
\* the largest ceiling a session is started with
MaxCeiling == 3

\* the ceilings a session is started with; below 1 the loop body never runs
Ceilings == (-1)..MaxCeiling

(***************************************************************************)
(* Lines of a Turtle text                                                  *)
(***************************************************************************)
ProseLine  == [kind |-> "prose"]
FenceLine  == [kind |-> "fence"]
BlankLine  == [kind |-> "blank"]
PrefixLine == [kind |-> "prefix"]

PolicyLine(node, uid, rules) ==
    [kind |-> "policy", node |-> node, uid |-> uid, rules |-> rules]

ConstraintLine(node, left, op, right, rightRef) ==
    [kind |-> "constraint", node |-> node, leftOperand |-> left,
     operator |-> op, rightOperand |-> right, rightOperandReference |-> rightRef]

\* the description of a node typed neither odrl:Policy nor odrl:Constraint
OtherLine(node) == [kind |-> "other", node |-> node]

IsNodeLine(l) == l.kind \in {"policy", "constraint", "other"}

(***************************************************************************)
(* Vocabulary                                                              *)
(***************************************************************************)
\* OperatorType, in declaration order
OperatorType ==
    << "eq", "gt", "gteq", "lt", "lteq", "neq", "isA", "hasPart", "isPartOf",
       "isAllOf", "isAnyOf", "isNoneOf" >>

\* ODRLLeftOperands.OPERANDS: the keys in declaration order
OperandNames ==
    << "dateTime", "count", "elapsedTime", "payAmount", "percentage",
       "spatial", "purpose", "recipient" >>

\* ODRLLeftOperands.OPERANDS: name -> compatible_operators
OPERANDS ==
    [n \in {OperandNames[i] : i \in 1..Len(OperandNames)} |->
        CASE n = "dateTime"    -> {"lt", "lteq", "gt", "gteq", "eq"}
          [] n = "count"       -> {"lt", "lteq", "gt", "gteq", "eq"}
          [] n = "elapsedTime" -> {"eq", "lt", "lteq"}
          [] n = "payAmount"   -> {"eq", "lt", "lteq", "gt", "gteq"}
          [] n = "percentage"  -> {"eq", "lt", "lteq", "gt", "gteq"}
          [] n = "spatial"     -> {"eq", "isA", "isAnyOf", "isNoneOf"}
          [] n = "purpose"     -> {"eq", "isA", "isAnyOf", "isNoneOf"}
          [] n = "recipient"   -> {"eq", "isA", "isAnyOf", "isNoneOf"}]

\* a listing in alphabetical order instead of declaration order
list_operandsSorted ==
    << "count", "dateTime", "elapsedTime", "payAmount", "percentage",
       "purpose", "recipient", "spatial" >>

list_operands == OperandNames

get_operand(name) ==
    IF name \in DOMAIN OPERANDS
    THEN [compatible_operators |-> OPERANDS[name]]
    ELSE None

SeqRange(s) == {s[i] : i \in 1..Len(s)}

(***************************************************************************)
(* ValidatorAgent._clean_turtle                                            *)
(***************************************************************************)
\* re.sub of ```turtle\s* and ```\s*: a fence goes, and so does the
\* whitespace after it, blank lines included
RECURSIVE RemoveFences(_, _)
RemoveFences(lines, afterFence) ==
    IF lines = << >> THEN << >>
    ELSE LET l == Head(lines) IN
         IF l.kind = "fence" THEN RemoveFences(Tail(lines), TRUE)
         ELSE IF l.kind = "blank" /\ afterFence THEN RemoveFences(Tail(lines), TRUE)
         ELSE << l >> \o RemoveFences(Tail(lines), FALSE)

\* the index of the first line that starts with @prefix, 0 when there is none
\* (0-based, as start_idx)
StartIdx(lines) ==
    IF \E i \in 1..Len(lines) : lines[i].kind = "prefix"
    THEN (CHOOSE i \in 1..Len(lines) :
              /\ lines[i].kind = "prefix"
              /\ \A j \in 1..(i - 1) : lines[j].kind # "prefix") - 1
    ELSE 0

\* str.strip() of the joined lines: leading and trailing blank lines go
RECURSIVE StripLeading(_)
StripLeading(lines) ==
    IF lines # << >> /\ Head(lines).kind = "blank"
    THEN StripLeading(Tail(lines))
    ELSE lines

RECURSIVE StripTrailing(_)
StripTrailing(lines) ==
    IF lines # << >> /\ lines[Len(lines)].kind = "blank"
    THEN StripTrailing(SubSeq(lines, 1, Len(lines) - 1))
    ELSE lines

Strip(lines) == StripTrailing(StripLeading(lines))

clean_turtle(content) ==
    LET lines == RemoveFences(content, FALSE)
        start == StartIdx(lines)
    IN  Strip(SubSeq(lines, start + 1, Len(lines)))

(***************************************************************************)
(* rdflib's Turtle parser, as _run_shacl_validation uses it                *)
(***************************************************************************)
\* the text parses when it holds nothing but blank lines, prefix
\* declarations and node descriptions (of any type), each node after a
\* prefix declaration; the empty text parses to the empty graph
Parses(text) ==
    \A i \in 1..Len(text) :
        /\ text[i].kind \in {"blank", "prefix", "policy", "constraint", "other"}
        /\ IsNodeLine(text[i]) => \E j \in 1..(i - 1) : text[j].kind = "prefix"

\* the nodes of the parsed graph
Graph(text) == {text[i] : i \in {j \in 1..Len(text) : IsNodeLine(text[j])}}

OdrlNs == "http://www.w3.org/ns/odrl/2/"
ShNs == "http://www.w3.org/ns/shacl#"

(***************************************************************************)
(* pyshacl's results for the two shapes in use, as the violation dicts     *)
(* that _run_shacl_validation extracts from the report graph               *)
(***************************************************************************)
Violation(focus, value, component, path, message) ==
    [focus_node |-> focus, value |-> value,
     source_constraint_component |-> component,
     result_path |-> path, message |-> message]

\* a shape whose sh:or reports every failed branch on its own
PolicyShapeResultsPerBranch(p) ==
    (IF p.uid = "none"
     THEN {Violation(p.node, Absent, ShNs \o "MinCountConstraintComponent",
                     OdrlNs \o "uid",
                     "Policy must have exactly one uid with IRI value")}
     ELSE IF p.uid = "literal"
     THEN {Violation(p.node, "policy-uid-literal",
                     ShNs \o "NodeKindConstraintComponent", OdrlNs \o "uid",
                     "Policy must have exactly one uid with IRI value")}
     ELSE {})
    \cup
    {Violation(p.node, Absent, ShNs \o "OrConstraintComponent",
               OdrlNs \o branch, "Policy must have at least one rule") :
        branch \in {"permission", "prohibition", "obligation"} \ p.rules}

\* PolicyStructureValidator.get_shape_ttl, applied to one odrl:Policy node
PolicyShapeResults(p) ==
    (IF p.uid = "none"
     THEN {Violation(p.node, Absent, ShNs \o "MinCountConstraintComponent",
                     OdrlNs \o "uid",
                     "Policy must have exactly one uid with IRI value")}
     ELSE IF p.uid = "literal"
     THEN {Violation(p.node, "policy-uid-literal",
                     ShNs \o "NodeKindConstraintComponent", OdrlNs \o "uid",
                     "Policy must have exactly one uid with IRI value")}
     ELSE {})
    \cup
    (IF p.rules \cap {"permission", "prohibition", "obligation"} = {}
     THEN {Violation(p.node, p.node, ShNs \o "OrConstraintComponent", Absent,
                     "Policy must have at least one rule")}
     ELSE {})

\* the IRI of a term of a node description: a name without a colon is
\* written odrl:name, any other term is a full IRI
TermIRI(term) ==
    IF \E i \in 1..Len(term) : SubSeq(term, i, i) = ":"
    THEN term
    ELSE OdrlNs \o term

\* one sh:property of ConstraintStructureShape (minCount 1, sh:in the odrl:
\* terms of allowed): the value is compared as an IRI, however it is spelled
InPropertyResults(c, prop, allowed, message) ==
    IF c[prop] = Absent
    THEN {Violation(c.node, Absent, ShNs \o "MinCountConstraintComponent",
                    OdrlNs \o prop, message)}
    ELSE IF TermIRI(c[prop]) \notin {OdrlNs \o name : name \in allowed}
    THEN {Violation(c.node, TermIRI(c[prop]), ShNs \o "InConstraintComponent",
                    OdrlNs \o prop, message)}
    ELSE {}

\* a shape whose right-operand rule is sh:or in place of sh:xone
ConstraintShapeResultsOr(c) ==
    InPropertyResults(c, "leftOperand", SeqRange(list_operands),
                      "Invalid or missing left operand")
    \cup
    InPropertyResults(c, "operator", SeqRange(OperatorType),
                      "Invalid or missing operator")
    \cup
    (IF ~c.rightOperand /\ ~c.rightOperandReference
     THEN {Violation(c.node, c.node, ShNs \o "XoneConstraintComponent", Absent,
                     "Missing right operand or reference")}
     ELSE {})

\* ConstraintStructureValidator.get_shape_ttl, applied to one odrl:Constraint
ConstraintShapeResults(c) ==
    InPropertyResults(c, "leftOperand", SeqRange(list_operands),
                      "Invalid or missing left operand")
    \cup
    InPropertyResults(c, "operator", SeqRange(OperatorType),
                      "Invalid or missing operator")
    \cup
    (IF c.rightOperand = c.rightOperandReference
     THEN {Violation(c.node, c.node, ShNs \o "XoneConstraintComponent", Absent,
                     "Missing right operand or reference")}
     ELSE {})

\* the validators of ODRLValidationTool.__init__, in order
Validators == << "PolicyStructureValidator", "ConstraintStructureValidator" >>

\* shapes that report a graph without any node of their target class
ShapeResultsNeedsTarget(validator, graph) ==
    LET kind == IF validator = "PolicyStructureValidator"
                THEN "policy" ELSE "constraint"
        targets == {m \in graph : m.kind = kind}
    IN  IF targets = {}
        THEN {Violation("", Absent, ShNs \o "MinCountConstraintComponent",
                        Absent, "No node of the target class")}
        ELSE IF kind = "policy"
        THEN UNION {PolicyShapeResults(n) : n \in targets}
        ELSE UNION {ConstraintShapeResults(n) : n \in targets}

\* the results of a validator's shape: those of the nodes of its
\* sh:targetClass
ShapeResults(validator, graph) ==
    IF validator = "PolicyStructureValidator"
    THEN UNION {PolicyShapeResults(n) : n \in {m \in graph : m.kind = "policy"}}
    ELSE UNION {ConstraintShapeResults(n) :
                    n \in {m \in graph : m.kind = "constraint"}}

\* every order in which the members of S can be listed
Orderings(S) ==
    {s \in [1..Cardinality(S) -> S] : \A x \in S : \E i \in DOMAIN s : s[i] = x}

\* ODRLValidationTool._run_shacl_validation: the violation lists it can
\* return.  The report graph is iterated in the store's order, which the
\* results' blank node ids decide, so any order of the results can come out;
\* a parse error becomes the single violation of the except branch.
run_shacl_validation(data_ttl, validator) ==
    IF Parses(data_ttl)
    THEN Orderings(ShapeResults(validator, Graph(data_ttl)))
    ELSE {<< Violation("", "", "", "", "Validation error: Bad syntax") >>}

dict_get(d, key, default) == IF d[key] = Absent THEN default ELSE d[key]

\* Python's `word in s` on strings
Contains(word, s) ==
    \E i \in 1..(Len(s) - Len(word) + 1) : SubSeq(s, i, i + Len(word) - 1) = word

\* s.split(sep)[-1] for a sep that occurs in s: the text after the last
\* occurrence of sep
AfterLast(sep, s) ==
    LET starts == {i \in 1..(Len(s) - Len(sep) + 1) :
                      SubSeq(s, i, i + Len(sep) - 1) = sep}
        last == CHOOSE i \in starts : \A j \in starts : j <= i
    IN  SubSeq(s, last + Len(sep), Len(s))

\* ConstraintStructureValidator._extract_from_uri
extract_from_uri(uri_value) ==
    IF Contains("odrl/2/", uri_value)
    THEN AfterLast("odrl/2/", uri_value)
    ELSE IF Contains(":", uri_value)
    THEN AfterLast(":", uri_value)
    ELSE uri_value

ValidationIssue(type, focus, path, value, explanation, severity) ==
    [issue_type |-> type, focus_node |-> focus,
     property_path |-> path, actual_value |-> value,
     constraint_violated |-> explanation, severity |-> severity]

\* a loop body that reports a result without sh:value with an empty
\* actual_value
PolicyIssueEmptyValue(violation) ==
    LET constraint_type == dict_get(violation, "source_constraint_component", "")
        path == dict_get(violation, "result_path", "")
        kind == IF Contains("uid", path)
                THEN << "Missing Policy UID",
                        << "ODRL Policy must have exactly one odrl:uid property with an IRI value" >> >>
                ELSE IF Contains("OrConstraintComponent", constraint_type)
                THEN << "Missing Policy Rules",
                        << "ODRL Policy must contain at least one Rule (permission/prohibition/obligation)" >> >>
                ELSE << "Policy Structure Error",
                        << dict_get(violation, "message",
                                    "Unknown policy structure violation") >> >>
    IN  ValidationIssue(kind[1], dict_get(violation, "focus_node", ""), path,
                        dict_get(violation, "value", ""),
                        kind[2], "Violation")

\* the body of PolicyStructureValidator.process_violations' loop; an
\* explanation is the sequence of the pieces its text is built from
PolicyIssue(violation) ==
    LET constraint_type == dict_get(violation, "source_constraint_component", "")
        path == dict_get(violation, "result_path", "")
        kind == IF Contains("uid", path)
                THEN << "Missing Policy UID",
                        << "ODRL Policy must have exactly one odrl:uid property with an IRI value" >> >>
                ELSE IF Contains("OrConstraintComponent", constraint_type)
                THEN << "Missing Policy Rules",
                        << "ODRL Policy must contain at least one Rule (permission/prohibition/obligation)" >> >>
                ELSE << "Policy Structure Error",
                        << dict_get(violation, "message",
                                    "Unknown policy structure violation") >> >>
    IN  ValidationIssue(kind[1], dict_get(violation, "focus_node", ""), path,
                        dict_get(violation, "value", "not specified"),
                        kind[2], "Violation")

\* the body of ConstraintStructureValidator.process_violations' loop
ConstraintIssue(violation) ==
    LET constraint_type == dict_get(violation, "source_constraint_component", "")
        path == dict_get(violation, "result_path", "")
        extracted == extract_from_uri(dict_get(violation, "value", ""))
        kind == IF Contains("leftOperand", path)
                THEN << "Invalid Left Operand",
                        << "Left operand '", extracted,
                           "' is not in ODRL Core. Valid: " >> \o list_operands >>
                ELSE IF Contains("operator", path)
                THEN << "Invalid Operator",
                        << "Operator '", extracted,
                           "' is not in ODRL Core. Valid: " >> \o OperatorType >>
                ELSE IF Contains("XoneConstraintComponent", constraint_type)
                THEN << "Missing Right Operand",
                        << "Must have either rightOperand or rightOperandReference" >> >>
                ELSE << "Constraint Structure Error",
                        << dict_get(violation, "message",
                                    "Unknown constraint violation") >> >>
    IN  ValidationIssue(kind[1], dict_get(violation, "focus_node", ""), path,
                        dict_get(violation, "value", "not specified"),
                        kind[2], "Violation")

process_violations(validator, violations) ==
    [i \in 1..Len(violations) |->
        IF validator = "PolicyStructureValidator"
        THEN PolicyIssue(violations[i])
        ELSE ConstraintIssue(violations[i])]

(***************************************************************************)
(* ValidationReport                                                        *)
(***************************************************************************)
ValidationReport(user_text, generated_kg, is_valid, issues) ==
    [user_text |-> user_text, generated_kg |-> generated_kg,
     is_valid |-> is_valid, issues |-> issues]

\* a validate_kg that decides is_valid on the first validator's issues only
validate_kg_FirstValidatorOnly(user_text, kg_turtle, shacl) ==
    LET all_issues ==
            process_violations(Validators[1], shacl[1])
                \o process_violations(Validators[2], shacl[2])
    IN  ValidationReport(user_text, kg_turtle,
                         Len(process_violations(Validators[1], shacl[1])) = 0,
                         all_issues)

\* ODRLValidationTool.validate_kg; shacl[i] is the violation list that
\* _run_shacl_validation returned for the i-th validator
validate_kg(user_text, kg_turtle, shacl) ==
    LET all_issues ==
            process_violations(Validators[1], shacl[1])
                \o process_violations(Validators[2], shacl[2])
    IN  ValidationReport(user_text, kg_turtle, Len(all_issues) = 0, all_issues)

\* the violation lists the validators' SHACL runs can return for a text
ShaclRuns(kg_turtle) ==
    {<< v1, v2 >> : v1 \in run_shacl_validation(kg_turtle, Validators[1]),
                   v2 \in run_shacl_validation(kg_turtle, Validators[2])}

\* ValidationReport._group_issues_by_type: the dict as its items in
\* insertion order
RECURSIVE group_issues_by_type(_)
group_issues_by_type(issues) ==
    IF issues = << >> THEN << >>
    ELSE LET n == Len(issues)
             groups == group_issues_by_type(SubSeq(issues, 1, n - 1))
             issue == issues[n]
         IN  IF \E g \in 1..Len(groups) : groups[g].issue_type = issue.issue_type
             THEN [g \in 1..Len(groups) |->
                     IF groups[g].issue_type = issue.issue_type
                     THEN [groups[g] EXCEPT !.issues = Append(@, issue)]
                     ELSE groups[g]]
             ELSE Append(groups, [issue_type |-> issue.issue_type,
                                  issues |-> << issue >>])

\* an entry that prints the severity line for every issue
PromptEntryAlwaysSeverity(issue) ==
    [node |-> issue.focus_node, property |-> issue.property_path,
     current_value |-> issue.actual_value,
     constraint_violated |-> issue.constraint_violated,
     severity |-> issue.severity]

\* one numbered entry of the prompt; the severity line is there only when
\* the severity is not "Violation"
PromptEntry(issue) ==
    [node |-> issue.focus_node, property |-> issue.property_path,
     current_value |-> issue.actual_value,
     constraint_violated |-> issue.constraint_violated,
     severity |-> IF issue.severity # "Violation" THEN issue.severity ELSE Absent]

\* ValidationReport.to_learning_prompt: the parts of the text it builds
to_learning_prompt(report) ==
    [user_text |-> report.user_text,
     generated_kg |-> Strip(report.generated_kg),
     status |-> IF report.is_valid THEN "VALID" ELSE "INVALID",
     n_issues |-> IF report.is_valid THEN 0 ELSE Len(report.issues),
     sections |->
        IF report.is_valid THEN << >>
        ELSE LET groups == group_issues_by_type(report.issues)
             IN  [g \in 1..Len(groups) |->
                    [heading |-> groups[g].issue_type,
                     entries |-> [i \in 1..Len(groups[g].issues) |->
                                     PromptEntry(groups[g].issues[i])]]]]

(***************************************************************************)
(* The documents and the LLM responses the sessions are run on             *)
(***************************************************************************)
PolicyNode == "http://example.com/policy1"
ConstraintNode == "http://example.com/constraint1"

\* a policy with a uid and a permission
GoodPolicy == PolicyLine(PolicyNode, "iri", {"permission"})
\* a policy with a permission and no uid
NoUidPolicy == PolicyLine(PolicyNode, "none", {"permission"})
\* a policy with neither a uid nor a rule
BarePolicy == PolicyLine(PolicyNode, "none", {})
\* a constraint with a known operand and operator and one right operand
GoodConstraint == ConstraintLine(ConstraintNode, "count", "lteq", TRUE, FALSE)
\* a constraint with an operator outside OperatorType and no right operand
BadConstraint == ConstraintLine(ConstraintNode, "dateTime", "bogusOperator", FALSE, FALSE)

\* a constraint whose operator is in OperatorType but outside the
\* compatible_operators of its left operand
CountIsAnyOfConstraint == ConstraintLine(ConstraintNode, "count", "isAnyOf", TRUE, FALSE)

\* a policy with a uid, a prohibition and an obligation
DutyPolicy == PolicyLine(PolicyNode, "iri", {"prohibition", "obligation"})
\* a constraint with both a rightOperand and a rightOperandReference
BothRightConstraint == ConstraintLine(ConstraintNode, "count", "lteq", TRUE, TRUE)

\* an odrl:Set, which the data graph does not declare a subclass of
\* odrl:Policy
SetNode == OtherLine("http://example.com/set1")

\* a constraint whose left operand is an IRI outside the ODRL namespace
ForeignOperandConstraint ==
    ConstraintLine(ConstraintNode, "http://example.com/myOperand", "invalidOp", TRUE, FALSE)

\* a conformant constraint whose operand and operator are written as full
\* IRIs instead of odrl: names
FullIriConstraint ==
    ConstraintLine(ConstraintNode, OdrlNs \o "count", OdrlNs \o "lteq", TRUE, FALSE)

\* the candidate documents a caller hands to validate_and_regenerate
Documents ==
    { << PrefixLine, GoodPolicy >>,
      << PrefixLine, NoUidPolicy >>,
      << PrefixLine, NoUidPolicy, GoodConstraint >>,
      << PrefixLine, GoodPolicy, CountIsAnyOfConstraint >>,
      << PrefixLine, BarePolicy, GoodConstraint >>,
      << PrefixLine, GoodPolicy, BadConstraint >>,
      << PrefixLine, DutyPolicy, BothRightConstraint >>,
      << PrefixLine, GoodPolicy, ForeignOperandConstraint >>,
      << PrefixLine, GoodPolicy, FullIriConstraint >>,
      << PrefixLine, SetNode >>,
      << ProseLine >>,
      << >> }

\* the contents of the responses the LLM gives
Responses ==
    { << FenceLine, PrefixLine, GoodPolicy, FenceLine >>,
      << ProseLine, FenceLine, BlankLine, PrefixLine, NoUidPolicy, FenceLine >>,
      << FenceLine, PrefixLine, GoodPolicy, FenceLine, ProseLine >>,
      << PrefixLine, BarePolicy, BlankLine >>,
      << FenceLine, PrefixLine, SetNode, FenceLine >>,
      << ProseLine >>,
      << >> }

\* the exception llm.invoke raises when the call fails
LLMError == [type |-> "APIConnectionError", args |-> << "Connection error." >>]

\* the exception Python raises when a local is read before it is bound
UnboundLocalError(name) == [type |-> "UnboundLocalError", args |-> << name >>]

(***************************************************************************)
(* ValidatorAgent                                                          *)
(***************************************************************************)
IssueDict(issue) ==
    [issue_type |-> issue.issue_type, focus_node |-> issue.focus_node,
     property_path |-> issue.property_path, actual_value |-> issue.actual_value,
     constraint_violated |-> issue.constraint_violated,
     severity |-> issue.severity]

IssueDicts(issues) == [i \in 1..Len(issues) |-> IssueDict(issues[i])]

\* ValidatorAgent.validate
validate(text, turtle, shacl) ==
    LET validation_report == validate_kg(text, turtle, shacl)
    IN  [is_valid |-> validation_report.is_valid,
         validation_report |-> validation_report]

\* whether ValidatorAgent.regenerate gets as far as llm.invoke
RegenerateInvokesLLM(result) == ~result.validation_report.is_valid

\* ValidatorAgent.regenerate, given the content of the LLM's response
regenerate(result, content) ==
    LET validation_report == result.validation_report
    IN  IF validation_report.is_valid
        THEN [odrl_turtle |-> validation_report.generated_kg,
              regenerated |-> FALSE]
        ELSE [odrl_turtle |-> clean_turtle(content),
              regenerated |-> TRUE,
              original_issues |-> IssueDicts(validation_report.issues)]

\* an attempt record that reports every attempt as valid
AttemptInfoAlwaysValid(n, validation_report, turtle) ==
    [attempt |-> n, is_valid |-> TRUE,
     issues |-> IssueDicts(validation_report.issues),
     odrl_turtle |-> turtle]

\* the attempt_info dict of validate_and_regenerate
AttemptInfo(n, validation_report, turtle) ==
    [attempt |-> n, is_valid |-> validation_report.is_valid,
     issues |-> IssueDicts(validation_report.issues),
     odrl_turtle |-> turtle]

Returned(value) == [kind |-> "return", value |-> value]
Raised(exception) == [kind |-> "raise", exception |-> exception]

\* while attempt <= max_attempts
LoopCondition == attempt <= max_attempts

\* a last-attempt test that no attempt of the loop satisfies
LastAttemptNever == attempt = max_attempts + 1

\* if attempt == max_attempts
LastAttemptReached == attempt = max_attempts

\* an attempt counter that is never advanced
NextAttemptStuck == attempt

\* attempt += 1
NextAttempt == attempt + 1

\* a success dict that reports one attempt more than were made
SuccessDictCountsOneMore(attempts_list) ==
    [success |-> TRUE, final_odrl |-> odrl_turtle, attempts |-> attempt + 1,
     all_attempts |-> attempts_list]

\* the dict returned when a validation pass finds no issue
SuccessDict(attempts_list) ==
    [success |-> TRUE, final_odrl |-> odrl_turtle, attempts |-> attempt,
     all_attempts |-> attempts_list]

\* a failure dict that reports the issues of the first attempt
FailureDictFirstIssues ==
    [success |-> FALSE, final_odrl |-> odrl_turtle, attempts |-> max_attempts,
     all_attempts |-> all_attempts, final_issues |-> all_attempts[1].issues]

\* the dict returned after the loop
FailureDict ==
    [success |-> FALSE, final_odrl |-> odrl_turtle, attempts |-> max_attempts,
     all_attempts |-> all_attempts, final_issues |-> attempt_info.issues]

Init ==
    /\ policy_text \in {"Alice can read the document until December 31, 2025"}
    /\ max_attempts \in Ceilings
    /\ odrl_turtle \in Documents
    /\ attempt = 1
    /\ all_attempts = << >>
    /\ validation_result = None
    /\ attempt_info = None
    /\ pc = "while"
    /\ outcome = None
    /\ validations = 0
    /\ llm_calls = 0
    /\ llm_prompts = << >>
    /\ reasoner_call = None
    /\ reasoner_result = None
    /\ cancel_requested = FALSE
    /\ workers = << >>
    /\ registry = None

\* while attempt <= max_attempts: the validation pass and attempt_info
Validate ==
    /\ pc = "while"
    /\ LoopCondition
    /\ \E shacl \in ShaclRuns(odrl_turtle) :
          LET result == validate(policy_text, odrl_turtle, shacl)
          IN  /\ validation_result' = result
              /\ attempt_info' = AttemptInfo(attempt, result.validation_report,
                                             odrl_turtle)
    /\ validations' = validations + 1
    /\ pc' = "validated"
    /\ UNCHANGED << policy_text, max_attempts, odrl_turtle, attempt,
                    all_attempts, outcome, llm_calls, llm_prompts >>
    /\ UNCHANGED other_vars

\* the while condition is false: on to the code after the loop
ExitLoop ==
    /\ pc = "while"
    /\ ~LoopCondition
    /\ pc' = "after_loop"
    /\ UNCHANGED << policy_text, max_attempts, odrl_turtle, attempt,
                    all_attempts, validation_result, attempt_info, outcome,
                    validations, llm_calls, llm_prompts >>
    /\ UNCHANGED other_vars

\* a success branch that appends the record and goes on with the loop
\* instead of returning
ReturnSuccessKeepsLooping ==
    /\ pc = "validated"
    /\ validation_result.validation_report.is_valid
    /\ all_attempts' = Append(all_attempts, attempt_info)
    /\ attempt' = attempt + 1
    /\ pc' = "while"
    /\ UNCHANGED << policy_text, max_attempts, odrl_turtle,
                    validation_result, attempt_info, outcome, validations,
                    llm_calls, llm_prompts >>
    /\ UNCHANGED other_vars

\* if validation_report.is_valid: append and return the success dict
ReturnSuccess ==
    /\ pc = "validated"
    /\ validation_result.validation_report.is_valid
    /\ all_attempts' = Append(all_attempts, attempt_info)
    /\ outcome' = Returned(SuccessDict(all_attempts'))
    /\ pc' = "returned"
    /\ UNCHANGED << policy_text, max_attempts, odrl_turtle, attempt,
                    validation_result, attempt_info, validations, llm_calls,
                    llm_prompts >>
    /\ UNCHANGED other_vars

\* if attempt == max_attempts: append and break
LastAttempt ==
    /\ pc = "validated"
    /\ ~validation_result.validation_report.is_valid
    /\ LastAttemptReached
    /\ all_attempts' = Append(all_attempts, attempt_info)
    /\ pc' = "after_loop"
    /\ UNCHANGED << policy_text, max_attempts, odrl_turtle, attempt,
                    validation_result, attempt_info, outcome, validations,
                    llm_calls, llm_prompts >>
    /\ UNCHANGED other_vars

\* self.regenerate(validation_result) up to self.llm.invoke: the prompt is
\* built from the report and handed over; the session waits for the response
InvokeLLM ==
    /\ pc = "validated"
    /\ ~validation_result.validation_report.is_valid
    /\ ~LastAttemptReached
    /\ RegenerateInvokesLLM(validation_result)
    /\ llm_calls' = llm_calls + 1
    /\ llm_prompts' =
          Append(llm_prompts,
                 to_learning_prompt(validation_result.validation_report))
    /\ pc' = "invoking"
    /\ UNCHANGED << policy_text, max_attempts, odrl_turtle, attempt,
                    all_attempts, validation_result, attempt_info, outcome,
                    validations >>
    /\ UNCHANGED other_vars

\* llm.invoke returns and so does self.regenerate(validation_result): the
\* new candidate, append, attempt += 1
Regenerate ==
    /\ pc = "invoking"
    /\ \E content \in Responses :
          odrl_turtle' = regenerate(validation_result, content).odrl_turtle
    /\ all_attempts' = Append(all_attempts, attempt_info)
    /\ attempt' = NextAttempt
    /\ pc' = "while"
    /\ UNCHANGED << policy_text, max_attempts, validation_result,
                    attempt_info, outcome, validations, llm_calls,
                    llm_prompts >>
    /\ UNCHANGED other_vars

\* llm.invoke raises inside self.regenerate(validation_result): nothing
\* catches it, the caller gets the exception as it was raised
RegenerateRaises ==
    /\ pc = "invoking"
    /\ outcome' = Raised(LLMError)
    /\ pc' = "raised"
    /\ UNCHANGED << policy_text, max_attempts, odrl_turtle, attempt,
                    all_attempts, validation_result, attempt_info,
                    validations, llm_calls, llm_prompts >>
    /\ UNCHANGED other_vars

\* the return after the loop: the failure dict
ReturnFailure ==
    /\ pc = "after_loop"
    /\ attempt_info # None
    /\ outcome' = Returned(FailureDict)
    /\ pc' = "returned"
    /\ UNCHANGED << policy_text, max_attempts, odrl_turtle, attempt,
                    all_attempts, validation_result, attempt_info,
                    validations, llm_calls, llm_prompts >>
    /\ UNCHANGED other_vars

\* a return after the loop that reports an empty issue list when the loop
\* body never ran
ReturnFailureNoIssues ==
    /\ pc = "after_loop"
    /\ attempt_info = None
    /\ outcome' = Returned([success |-> FALSE, final_odrl |-> odrl_turtle,
                            attempts |-> max_attempts,
                            all_attempts |-> all_attempts,
                            final_issues |-> << >>])
    /\ pc' = "returned"
    /\ UNCHANGED << policy_text, max_attempts, odrl_turtle, attempt,
                    all_attempts, validation_result, attempt_info,
                    validations, llm_calls, llm_prompts >>
    /\ UNCHANGED other_vars

\* the return after the loop when the loop body never ran: attempt_info is
\* read unbound
ReturnFailureUnbound ==
    /\ pc = "after_loop"
    /\ attempt_info = None
    /\ outcome' = Raised(UnboundLocalError("attempt_info"))
    /\ pc' = "raised"
    /\ UNCHANGED << policy_text, max_attempts, odrl_turtle, attempt,
                    all_attempts, validation_result, attempt_info,
                    validations, llm_calls, llm_prompts >>
    /\ UNCHANGED other_vars

Next ==
    \/ Validate
    \/ ExitLoop
    \/ ReturnSuccess
    \/ LastAttempt
    \/ InvokeLLM
    \/ Regenerate
    \/ RegenerateRaises
    \/ ReturnFailure
    \/ ReturnFailureUnbound

Spec == Init /\ [][Next]_vars

\* the steps of a session whose validation passes and transducer calls all
\* return
NextReturning ==
    \/ Validate
    \/ ExitLoop
    \/ ReturnSuccess
    \/ LastAttempt
    \/ InvokeLLM
    \/ Regenerate
    \/ ReturnFailure
    \/ ReturnFailureUnbound

\* validate_and_regenerate runs in one thread and every call it makes
\* returns: a step that can be taken is taken
SpecReturning == Init /\ [][NextReturning]_vars /\ WF_vars(NextReturning)

\* the caller asks for the cancellation of the session while an attempt is
\* in progress.  validate_and_regenerate has no parameter, attribute or
\* check for it: the request changes nothing the loop reads.
Cancel ==
    /\ pc \in {"validated", "invoking"}
    /\ ~cancel_requested
    /\ cancel_requested' = TRUE
    /\ UNCHANGED << policy_text, max_attempts, odrl_turtle, attempt,
                    all_attempts, validation_result, attempt_info, pc,
                    outcome, validations, llm_calls, llm_prompts,
                    reasoner_call, reasoner_result, workers, registry >>

\* the steps of a session whose caller may ask for its cancellation
NextCancellable ==
    \/ Next
    \/ Cancel

SpecCancellable == Init /\ [][NextCancellable]_vars

(***************************************************************************)
(* The conflict taxonomy (agents/reasoner/conflict_types.py)               *)
(*                                                                         *)
(* An enum member is its name, ConflictType maps it to its value.  A       *)
(* structural pattern is a dict: a function from its keys to their values. *)
(***************************************************************************)
\* class ConflictType(str, Enum): member name |-> value
ConflictType ==
    [VAGUE_BROAD |-> "vague_and_overly_broad",
     UNMEASURABLE |-> "unmeasurable_terms",
     SPATIAL_HIERARCHY |-> "spatial_hierarchy_conflict",
     SPATIAL_OVERLAP |-> "spatial_overlap_conflict",
     TEMPORAL_EXPIRED |-> "temporal_expired_policy",
     TEMPORAL_OVERLAP |-> "temporal_overlap_conflict",
     TEMPORAL_IMPOSSIBLE |-> "temporal_impossible_sequence",
     ACTION_HIERARCHY |-> "action_hierarchy_conflict",
     ACTION_SUBSUMPTION |-> "action_subsumption_conflict",
     ACTION_CONFLICT |-> "action_conflict",
     CIRCULAR_DEPENDENCY |-> "circular_approval_dependency",
     WORKFLOW_CYCLE |-> "workflow_cycle_conflict",
     ROLE_HIERARCHY |-> "role_hierarchy_conflict",
     PARTY_INCONSISTENCY |-> "party_specification_inconsistency"]

\* the members of the enum
ConflictTypeMembers == DOMAIN ConflictType

\* class ConflictDetectionStrategy
ConflictDetectionStrategy(type, order, ontology, graph, keywords, structural, principle) ==
    [conflict_type |-> type, detection_order |-> order,
     requires_ontology |-> ontology, requires_graph_analysis |-> graph,
     keyword_patterns |-> keywords, structural_patterns |-> structural,
     resolution_principle |-> principle, default_action |-> "reject"]

\* CONFLICT_STRATEGIES[0]
UnmeasurableStrategy ==
    ConflictDetectionStrategy("UNMEASURABLE", 1, FALSE, FALSE,
        << "urgent", "soon", "later", "promptly", "quickly",
           "responsibly", "appropriately", "properly",
           "when necessary", "if important", "as needed",
           "everyone", "anyone", "nobody" >>,
        << >>, "reject_with_measurable_alternative")

\* CONFLICT_STRATEGIES[1]
VagueBroadStrategy ==
    ConflictDetectionStrategy("VAGUE_BROAD", 2, FALSE, FALSE,
        << "everything", "anything", "all data", "any purpose",
           "everyone can access everything", "nobody can do anything" >>,
        << [actors |-> "universal_quantifier", assets |-> "universal_quantifier"],
           [actors |-> "unspecified", actions |-> "unspecified"] >>,
        "require_specification")

\* CONFLICT_STRATEGIES[2]
TemporalExpiredStrategy ==
    ConflictDetectionStrategy("TEMPORAL_EXPIRED", 3, FALSE, FALSE, << >>,
        << [constraint_type |-> "temporal", end_date |-> "before_current_date"] >>,
        "flag_as_inactive")

\* CONFLICT_STRATEGIES[3]
TemporalOverlapStrategy ==
    ConflictDetectionStrategy("TEMPORAL_OVERLAP", 4, FALSE, FALSE, << >>,
        << [overlapping_intervals |-> TRUE, contradictory_actions |-> TRUE] >>,
        "specific_over_general")

\* CONFLICT_STRATEGIES[4]
SpatialHierarchyStrategy ==
    ConflictDetectionStrategy("SPATIAL_HIERARCHY", 5, TRUE, FALSE, << >>,
        << [narrow_scope |-> "permitted", broad_scope |-> "prohibited",
            containment |-> TRUE] >>,
        "specific_over_general")

\* CONFLICT_STRATEGIES[5]
ActionHierarchyStrategy ==
    ConflictDetectionStrategy("ACTION_HIERARCHY", 6, TRUE, FALSE, << >>,
        << [parent_action |-> "permitted", child_action |-> "prohibited"],
           [action_subsumption |-> TRUE] >>,
        "prohibit_on_conflict")

\* the seventh entry with the detection_order of the sixth
RoleHierarchyStrategySameOrder ==
    ConflictDetectionStrategy("ROLE_HIERARCHY", 6, TRUE, FALSE, << >>,
        << [broader_role |-> "required", narrower_role |-> "prohibited",
            role_containment |-> TRUE] >>,
        "apply_role_hierarchy")

\* CONFLICT_STRATEGIES[6]
RoleHierarchyStrategy ==
    ConflictDetectionStrategy("ROLE_HIERARCHY", 7, TRUE, FALSE, << >>,
        << [broader_role |-> "required", narrower_role |-> "prohibited",
            role_containment |-> TRUE] >>,
        "apply_role_hierarchy")

\* CONFLICT_STRATEGIES[7]
CircularDependencyStrategy ==
    ConflictDetectionStrategy("CIRCULAR_DEPENDENCY", 8, FALSE, TRUE, << >>,
        << [dependency_chain |-> "contains_cycle"] >>,
        "break_cycle_at_weakest_link")

\* the list CONFLICT_STRATEGIES
CONFLICT_STRATEGIES ==
    << UnmeasurableStrategy, VagueBroadStrategy, TemporalExpiredStrategy,
       TemporalOverlapStrategy, SpatialHierarchyStrategy,
       ActionHierarchyStrategy, RoleHierarchyStrategy,
       CircularDependencyStrategy >>

\* RESOLUTION_PRINCIPLES: key |-> the first line of its explanation
RESOLUTION_PRINCIPLES ==
    [specific_over_general |->
        "When two policies conflict, the more specific policy takes precedence:",
     prohibit_on_ambiguity |->
        "When temporal or spatial constraints create ambiguity, default to prohibition:",
     reject_with_measurable_alternative |->
        "Unmeasurable terms must be replaced with objective criteria:",
     require_specification |-> "Overly broad policies must specify:",
     apply_role_hierarchy |->
        "Role conflicts resolved via organizational hierarchy:",
     break_cycle_at_weakest_link |-> "Circular dependencies broken by:"]

\* CONFLICT_EXAMPLES: member |-> the user_input of its example
CONFLICT_EXAMPLES ==
    [UNMEASURABLE |-> "Data must be used responsibly for urgent requests",
     VAGUE_BROAD |-> "Everyone can access everything for any purpose",
     SPATIAL_HIERARCHY |->
        "Access permitted in Germany but prohibited in all EU countries",
     TEMPORAL_OVERLAP |->
        "Access allowed 9am-5pm Monday to Friday, but prohibited 2pm-6pm every day",
     ACTION_HIERARCHY |-> "Users can share the dataset but cannot distribute it",
     CIRCULAR_DEPENDENCY |->
        "Access requires Committee approval -> Committee needs Rights verification -> Rights needs preliminary access",
     ROLE_HIERARCHY |->
        "Managers must access data weekly; administrators cannot access data; all managers are administrators"]

\* the exception next() raises on an exhausted generator
StopIteration == [type |-> "StopIteration", args |-> << >>]

\* the indexes of the strategies of a conflict type, in list order
StrategiesOf(conflict_type) ==
    {i \in 1..Len(CONFLICT_STRATEGIES) :
        CONFLICT_STRATEGIES[i].conflict_type = conflict_type}

\* 'CRITICAL' if detection_order <= 2 else 'High' if <= 5 else 'Standard'
PriorityLabel(detection_order) ==
    IF detection_order <= 2 THEN "CRITICAL"
    ELSE IF detection_order <= 5 THEN "High" ELSE "Standard"

\* get_detection_prompt_for_conflict_type: the parts of the prompt it
\* formats, or the exception of next(...)
get_detection_prompt_for_conflict_type(conflict_type) ==
    IF StrategiesOf(conflict_type) = {}
    THEN Raised(StopIteration)
    ELSE LET first == CHOOSE i \in StrategiesOf(conflict_type) :
                         \A j \in StrategiesOf(conflict_type) : i <= j
             strategy == CONFLICT_STRATEGIES[first]
             principle ==
                 IF strategy.resolution_principle \in DOMAIN RESOLUTION_PRINCIPLES
                 THEN RESOLUTION_PRINCIPLES[strategy.resolution_principle]
                 ELSE ""
         IN  Returned(
               [heading_of |-> ConflictType[conflict_type],
                detection_order |-> strategy.detection_order,
                priority |-> PriorityLabel(strategy.detection_order),
                keywords |->
                    IF Len(strategy.keyword_patterns) > 0
                    THEN strategy.keyword_patterns
                    ELSE << "N/A - structural patterns only" >>,
                resolution_principle |-> strategy.resolution_principle,
                principle |-> principle,
                example |->
                    IF conflict_type \in DOMAIN CONFLICT_EXAMPLES
                    THEN CONFLICT_EXAMPLES[conflict_type] ELSE "N/A"])

(***************************************************************************)
(* Classification of a conflict signal.  conflict_types.py holds the       *)
(* strategy table and no function that scans it; the scan is the one the   *)
(* specification of the taxonomy describes, over the table of the source.  *)
(***************************************************************************)
\* the condition of a signal that no strategy's triggers accept
NoMatchingStrategy == [type |-> "NoMatchingStrategy", args |-> << >>]

\* one of the strategy's keywords is among the signal's keyword hits
KeywordHit(strategy, signal) ==
    \E i \in 1..Len(strategy.keyword_patterns) :
        strategy.keyword_patterns[i] \in signal.keywords

\* every predicate of the pattern holds in the signal
PatternHolds(pattern, signal) ==
    \A k \in DOMAIN pattern :
        k \in DOMAIN signal.structure /\ signal.structure[k] = pattern[k]

\* the strategy's trigger signals are satisfied by the signal
TriggersSatisfied(strategy, signal) ==
    \/ KeywordHit(strategy, signal)
    \/ \E i \in 1..Len(strategy.structural_patterns) :
          PatternHolds(strategy.structural_patterns[i], signal)

\* the strategies in ascending detection_order (insertion sort, stable)
RECURSIVE ByPriority(_)
ByPriority(strategies) ==
    IF strategies = << >> THEN << >>
    ELSE LET n == Len(strategies)
             sorted == ByPriority(SubSeq(strategies, 1, n - 1))
             last == strategies[n]
             k == Cardinality({i \in 1..Len(sorted) :
                                 sorted[i].detection_order <= last.detection_order})
         IN  SubSeq(sorted, 1, k) \o << last >> \o SubSeq(sorted, k + 1, Len(sorted))

\* the first strategy of the sequence whose triggers the signal satisfies
RECURSIVE FirstMatch(_, _)
FirstMatch(strategies, signal) ==
    IF strategies = << >> THEN Raised(NoMatchingStrategy)
    ELSE IF TriggersSatisfied(Head(strategies), signal)
         THEN Returned(Head(strategies).conflict_type)
         ELSE FirstMatch(Tail(strategies), signal)

\* classify(conflict_signal)
classify(signal) == FirstMatch(ByPriority(CONFLICT_STRATEGIES), signal)

(***************************************************************************)
(* Reasoner._parse_response (agents/reasoner/reasoner_agent.py)            *)
(***************************************************************************)
\* ConflictType(value): the member with that value; a ValueError otherwise
HasConflictType(value) == \E m \in ConflictTypeMembers : ConflictType[m] = value

ConflictTypeOf(value) == CHOOSE m \in ConflictTypeMembers : ConflictType[m] = value

\* the values json.loads gives: an object with its members (a record whose
\* fields are the keys that are there), an array with its items, a string,
\* a number, null.  The issue dicts of a response are written as records
\* without the json field, a key that is not there holding Absent.
JsonObject(members) == [json |-> "object", members |-> members]
JsonArray(items) == [json |-> "array", items |-> items]
JsonString(str) == [json |-> "string", str |-> str]
JsonNumber(n) == [json |-> "number", num |-> n]
JsonNull == [json |-> "null"]

IsIssueDict(value) == "json" \notin DOMAIN value

\* DetectedIssue(...) of an item of the issues is built without an
\* exception: the item is a dict, the keys read with [] are there, the
\* category is a value of the enum and the severity is one of the Literal's
\* values
Constructible(issue_dict) ==
    /\ IsIssueDict(issue_dict)
    /\ issue_dict.category # Absent
    /\ HasConflictType(issue_dict.category)
    /\ issue_dict.severity \in {"high", "low"}
    /\ issue_dict.message # Absent

\* issue.model_dump() of the DetectedIssue built from an issue dict
DetectedIssue(issue_dict) ==
    [category |-> ConflictTypeOf(issue_dict.category),
     severity |-> issue_dict.severity,
     field |-> dict_get(issue_dict, "field", "unknown"),
     message |-> issue_dict.message]

\* the issues kept by the loop over result.get("issues", []): an item whose
\* DetectedIssue raises is logged and skipped
RECURSIVE ParsedIssues(_)
ParsedIssues(issue_dicts) ==
    IF issue_dicts = << >> THEN << >>
    ELSE IF Constructible(Head(issue_dicts))
         THEN << DetectedIssue(Head(issue_dicts)) >>
                  \o ParsedIssues(Tail(issue_dicts))
         ELSE ParsedIssues(Tail(issue_dicts))

\* result.get(key, default) of a dict
result_get(result, key, default) ==
    IF key \in DOMAIN result THEN result[key] ELSE default

\* the exceptions that leave _parse_response: only json.JSONDecodeError is
\* caught around json.loads and the code after it
TypeError(message) == [type |-> "TypeError", args |-> << message >>]
AttributeError(message) == [type |-> "AttributeError", args |-> << message >>]

\* the name of the Python type of a JSON value
PyType(value) ==
    CASE value.json = "object" -> "dict"
      [] value.json = "array"  -> "list"
      [] value.json = "string" -> "str"
      [] value.json = "number" -> "int"
      [] value.json = "null"   -> "NoneType"

\* the pieces a response text is made of: prose (words without braces or
\* backticks), a ``` fence with or without the word json, and the text of a
\* JSON value (whose strings hold no brace and no backtick)
Prose == [tok |-> "prose"]
Fence == [tok |-> "fence"]

\* the outermost {...} objects in the text of a JSON value, in order
RECURSIVE ObjectsIn(_)
RECURSIVE ObjectsInItems(_)
ObjectsInItems(items) ==
    IF items = << >> THEN << >>
    ELSE ObjectsIn(Head(items)) \o ObjectsInItems(Tail(items))

ObjectsIn(value) ==
    IF IsIssueDict(value) THEN << JsonObject(value) >>
    ELSE IF value.json = "object" THEN << value >>
    ELSE IF value.json = "array" THEN ObjectsInItems(value.items)
    ELSE << >>

\* the outermost {...} objects of a response text, in order
RECURSIVE BraceObjects(_)
BraceObjects(text) ==
    IF text = << >> THEN << >>
    ELSE (IF "tok" \notin DOMAIN Head(text) THEN ObjectsIn(Head(text)) ELSE << >>)
            \o BraceObjects(Tail(text))

\* json_str: what is between the first two fences; without two fences, what
\* lies from the first { to the last } (written as the outermost objects in
\* between); without a brace, the content
extract_json(text) ==
    LET fences == {i \in 1..Len(text) : text[i] = Fence}
    IN  IF Cardinality(fences) >= 2
        THEN LET first == CHOOSE i \in fences : \A j \in fences : i <= j
                 second == CHOOSE i \in fences \ {first} :
                               \A j \in fences \ {first} : i <= j
             IN  SubSeq(text, first + 1, second - 1)
        ELSE IF BraceObjects(text) # << >>
        THEN BraceObjects(text)
        ELSE text

\* whether json.loads accepts json_str: the text of exactly one value
Decodes(json_str) == Len(json_str) = 1 /\ "tok" \notin DOMAIN json_str[1]

\* what 'for issue_dict in ...' goes through: the items of a list, the keys
\* of a dict, the characters of a str
Iterable(value) == value.json \in {"array", "object", "string"}

Iterated(value) ==
    IF value.json = "array" THEN value.items
    ELSE IF value.json = "object"
    THEN LET keys == DOMAIN value.members
             order == CHOOSE f \in [1..Cardinality(keys) -> keys] :
                          \A k \in keys : \E i \in DOMAIN f : f[i] = k
         IN  [i \in 1..Cardinality(keys) |-> JsonString(order[i])]
    ELSE [i \in 1..Len(value.str) |-> JsonString(SubSeq(value.str, i, i))]

\* Reasoner._parse_response.  content.type is the type of response.content;
\* for a str, content.text is its text and content.error the text of the
\* JSONDecodeError json.loads raises when it rejects json_str.  A
\* confidence is written in percent.
parse_response(content) ==
    IF content.type # "str"
    THEN Raised(TypeError("expected string or bytes-like object, got '"
                              \o content.type \o "'"))
    ELSE LET json_str == extract_json(content.text) IN
    IF ~Decodes(json_str)
    THEN Returned(
           [decision |-> "needs_input", confidence |-> 50, risk_level |-> "high",
            reasoning |-> "Failed to parse LLM response. Error: " \o content.error,
            issues |-> << >>,
            recommendations |->
              << "Manual review required - LLM response parsing failed" >>])
    ELSE IF json_str[1].json # "object"
    THEN Raised(AttributeError("'" \o PyType(json_str[1])
                                   \o "' object has no attribute 'get'"))
    ELSE LET result == json_str[1].members
             issue_dicts == result_get(result, "issues", JsonArray(<< >>))
         IN  IF ~Iterable(issue_dicts)
             THEN Raised(TypeError("'" \o PyType(issue_dicts)
                                       \o "' object is not iterable"))
             ELSE Returned(
                    [decision |-> result_get(result, "decision", "needs_input"),
                     confidence |-> result_get(result, "confidence", 50),
                     risk_level |-> result_get(result, "risk_level", "medium"),
                     reasoning |-> result_get(result, "reasoning", ""),
                     issues |-> ParsedIssues(Iterated(issue_dicts)),
                     recommendations |-> result_get(result, "recommendations", << >>)])

(***************************************************************************)
(* The inputs the taxonomy and the reasoner are run on                     *)
(***************************************************************************)
\* the longest issue list of an LLM response
MaxIssues == 2

\* a signal without structural predicates
NoStructure == [k \in {} |-> TRUE]

\* the structural parts of the signals: none, each pattern of the table,
\* and one that no pattern accepts
Structures ==
    {NoStructure, [actors |-> "named"]}
        \cup UNION {SeqRange(CONFLICT_STRATEGIES[i].structural_patterns) :
                        i \in 1..Len(CONFLICT_STRATEGIES)}

\* the keyword hits of the signals
KeywordSets ==
    { {}, {"urgent"}, {"everything"}, {"urgent", "everything"}, {"tomorrow"} }

\* the conflict signals handed to classify
Signals == {[keywords |-> k, structure |-> s] : k \in KeywordSets, s \in Structures}

\* the issue dicts of an LLM response
LLMIssue(category, severity, field, message) ==
    [category |-> category, severity |-> severity, field |-> field,
     message |-> message]

LLMIssues ==
    { LLMIssue("unmeasurable_terms", "high", "constraint", "'urgent' is not measurable"),
      LLMIssue("temporal_overlap_conflict", "low", Absent, "overlapping windows"),
      LLMIssue("action_conflict", "high", "action", "use is both permitted and prohibited"),
      LLMIssue("privacy_conflict", "high", "purpose", "personal data is shared"),
      LLMIssue(Absent, "high", "actor", "actor is not specified"),
      LLMIssue("vague_and_overly_broad", "medium", "asset", "everything is too broad"),
      LLMIssue("vague_and_overly_broad", "high", "asset", "urgent access to everything") }

\* a dict without any key
NoMembers == [k \in {} |-> TRUE]

\* the members a response's JSON object is put together from: each key is
\* there or not
DecisionMembers ==
    {NoMembers, [decision |-> "approve"],
     [decision |-> "reject", confidence |-> 90, reasoning |-> "r"]}

IssuesMembers ==
    {NoMembers, [issues |-> JsonNull], [issues |-> JsonNumber(0)],
     [issues |-> JsonString("none")],
     [issues |-> JsonObject(NoMembers)],
     [issues |-> JsonObject([a |-> JsonNumber(1)])],
     [issues |-> JsonArray(<< JsonString("none") >>)]}
        \cup {[issues |-> JsonArray(is)] :
                 is \in UNION {[1..n -> LLMIssues] : n \in 0..MaxIssues}}

\* the texts around a JSON object: alone, in a fence, after an introduction
\* (in a fence or not), in a fence that is not closed
Wrappings(object) ==
    { << object >>, << Fence, object, Fence >>, << Prose, object >>,
      << Prose, Fence, object, Fence, Prose >>, << Fence, object >> }

\* the text of an issue dict as json.dumps writes it, keys sorted
IssueText(issue) ==
    LET keys == SelectSeq(<< "category", "field", "message", "severity" >>,
                          LAMBDA k : issue[k] # Absent)
        member(i) == "\"" \o keys[i] \o "\": \"" \o issue[keys[i]] \o "\""
        rest(i) == IF i <= Len(keys) THEN ", " \o member(i) ELSE ""
    IN  "{" \o (IF keys = << >> THEN ""
                ELSE member(1) \o rest(2) \o rest(3) \o rest(4)) \o "}"

\* str(e) of the JSONDecodeError for a json_str that goes on after the text
\* of its first value
ExtraData(first) ==
    "Extra data: line 1 column " \o ToString(Len(first) + 1)
        \o " (char " \o ToString(Len(first)) \o ")"

\* a str content; error is what str(e) is when json.loads rejects json_str
StrContent(text, error) == [type |-> "str", text |-> text, error |-> error]

\* the contents of the LLM responses handed to _parse_response
LLMContents ==
    {[type |-> "NoneType"],
     StrContent(<< >>, "Expecting value: line 1 column 1 (char 0)"),
     StrContent(<< Prose >>, "Expecting value: line 1 column 1 (char 0)"),
     StrContent(<< Fence, Prose, JsonObject([decision |-> "approve"]), Fence >>,
                "Expecting value: line 1 column 1 (char 0)"),
     StrContent(<< Fence, Fence, JsonObject([decision |-> "approve"]) >>,
                "Expecting value: line 1 column 1 (char 0)"),
     StrContent(<< JsonArray(<< >>) >>, ""),
     StrContent(<< JsonNumber(42) >>, ""),
     StrContent(<< JsonNull >>, ""),
     StrContent(<< JsonString("approve") >>, "")}
        \cup {StrContent(<< JsonArray(is) >>,
                         IF Len(is) >= 2 THEN ExtraData(IssueText(is[1])) ELSE "") :
                 is \in UNION {[1..n -> LLMIssues] : n \in 1..MaxIssues}}
        \cup {StrContent(text, "") :
                 text \in UNION {Wrappings(JsonObject(d @@ is @@ r)) :
                                   d \in DecisionMembers, is \in IssuesMembers,
                                   r \in {NoMembers,
                                          [recommendations |->
                                              << "narrow the scope" >>]}}}

\* the calls made on the taxonomy and the reasoner
ReasonerCalls ==
    {[fn |-> "classify", arg |-> s] : s \in Signals}
        \cup {[fn |-> "get_detection_prompt_for_conflict_type", arg |-> t] :
                 t \in ConflictTypeMembers}
        \cup {[fn |-> "_parse_response", arg |-> c] : c \in LLMContents}

\* no repair session is running
SessionIdle ==
    /\ policy_text = ""
    /\ max_attempts = 0
    /\ odrl_turtle = << >>
    /\ attempt = 1
    /\ all_attempts = << >>
    /\ validation_result = None
    /\ attempt_info = None
    /\ pc = "idle"
    /\ outcome = None
    /\ validations = 0
    /\ llm_calls = 0
    /\ llm_prompts = << >>
    /\ cancel_requested = FALSE

\* no concurrent sessions are running
NoWorkers == workers = << >> /\ registry = None

session_vars == << policy_text, max_attempts, odrl_turtle, attempt,
                   all_attempts, validation_result, attempt_info, pc, outcome,
                   validations, llm_calls, llm_prompts, cancel_requested,
                   workers, registry >>

InitReasoner ==
    /\ SessionIdle
    /\ NoWorkers
    /\ reasoner_call \in ReasonerCalls
    /\ reasoner_result = None

\* classify(conflict_signal)
Classify ==
    /\ reasoner_result = None
    /\ reasoner_call.fn = "classify"
    /\ reasoner_result' = classify(reasoner_call.arg)
    /\ UNCHANGED << reasoner_call, session_vars >>

\* get_detection_prompt_for_conflict_type(conflict_type)
GetDetectionPrompt ==
    /\ reasoner_result = None
    /\ reasoner_call.fn = "get_detection_prompt_for_conflict_type"
    /\ reasoner_result' = get_detection_prompt_for_conflict_type(reasoner_call.arg)
    /\ UNCHANGED << reasoner_call, session_vars >>

\* self._parse_response(response.content)
ParseResponse ==
    /\ reasoner_result = None
    /\ reasoner_call.fn = "_parse_response"
    /\ reasoner_result' = parse_response(reasoner_call.arg)
    /\ UNCHANGED << reasoner_call, session_vars >>

NextReasoner ==
    \/ Classify
    \/ GetDetectionPrompt
    \/ ParseResponse

SpecReasoner == InitReasoner /\ [][NextReasoner]_vars

(***************************************************************************)
(* Calls on the operand registry and on the feedback rendering             *)
(* (agents/validator/odrl_validation_tool.py)                              *)
(***************************************************************************)
\* the longest issue list of a rendered report
MaxPromptIssues == 3

\* the names looked up in the registry: the operands, the operators, and
\* names that are neither
LookupNames ==
    SeqRange(OperandNames) \cup SeqRange(OperatorType)
        \cup {"", "Count", "datetime", "odrl:count", OdrlNs \o "count", "language"}

ConstraintNode2 == "http://example.com/constraint2"

\* the issues of the rendered reports: two types, one of them on two nodes,
\* and an issue whose severity is not the default
PromptIssues ==
    { ValidationIssue("Missing Policy UID", PolicyNode, OdrlNs \o "uid",
                      "not specified",
                      << "ODRL Policy must have exactly one odrl:uid property with an IRI value" >>,
                      "Violation"),
      ValidationIssue("Missing Right Operand", ConstraintNode, "",
                      ConstraintNode,
                      << "Must have either rightOperand or rightOperandReference" >>,
                      "Violation"),
      ValidationIssue("Missing Right Operand", ConstraintNode2, "",
                      ConstraintNode2,
                      << "Must have either rightOperand or rightOperandReference" >>,
                      "Violation"),
      ValidationIssue("Operator Compatibility", ConstraintNode, "odrl:operator",
                      OdrlNs \o "isAnyOf",
                      << "Operator '", "isAnyOf",
                         "' not compatible with leftOperand '", "count", "'" >>,
                      "Warning") }

\* the reports handed to to_learning_prompt: is_valid as validate_kg sets it
PromptReports ==
    {ValidationReport("Alice can read the document until December 31, 2025",
                      << PrefixLine, NoUidPolicy >>, Len(is) = 0, is) :
        is \in UNION {[1..n -> PromptIssues] : n \in 0..MaxPromptIssues}}

\* the calls made on the registry and on the rendering
ToolCalls ==
    {[fn |-> "get_operand", arg |-> n] : n \in LookupNames}
        \cup {[fn |-> "list_operands", arg |-> << >>]}
        \cup {[fn |-> "to_learning_prompt", arg |-> r] : r \in PromptReports}

InitTool ==
    /\ SessionIdle
    /\ NoWorkers
    /\ reasoner_call \in ToolCalls
    /\ reasoner_result = None

\* ODRLLeftOperands.get_operand(name)
GetOperand ==
    /\ reasoner_result = None
    /\ reasoner_call.fn = "get_operand"
    /\ reasoner_result' = Returned(get_operand(reasoner_call.arg))
    /\ UNCHANGED << reasoner_call, session_vars >>

\* ODRLLeftOperands.list_operands()
ListOperands ==
    /\ reasoner_result = None
    /\ reasoner_call.fn = "list_operands"
    /\ reasoner_result' = Returned(list_operands)
    /\ UNCHANGED << reasoner_call, session_vars >>

\* validation_report.to_learning_prompt()
ToLearningPrompt ==
    /\ reasoner_result = None
    /\ reasoner_call.fn = "to_learning_prompt"
    /\ reasoner_result' = Returned(to_learning_prompt(reasoner_call.arg))
    /\ UNCHANGED << reasoner_call, session_vars >>

NextTool ==
    \/ GetOperand
    \/ ListOperands
    \/ ToLearningPrompt

SpecTool == InitTool /\ [][NextTool]_vars

(***************************************************************************)
(* Concurrent repair sessions of one ValidatorAgent.  A worker is one call *)
(* of validate_and_regenerate: a record of its arguments and locals.  The  *)
(* workers share the agent's ODRLValidationTool (its validator list) and   *)
(* the module-level tables.                                                *)
(***************************************************************************)
\* the largest ceiling a concurrent session is started with
MaxWorkerCeiling == 2

WorkerIds == {1, 2}

\* what the sessions share: ODRLValidationTool.validators,
\* ODRLLeftOperands.OPERANDS and CONFLICT_STRATEGIES
SharedConfig ==
    [validators |-> Validators, operands |-> OPERANDS,
     strategies |-> CONFLICT_STRATEGIES]

\* a validate_kg that consumes the validator list it iterates
validators_popped(validators) == Tail(validators)

\* self.validators after validate_kg's 'for validator in self.validators':
\* the loop reads the list and leaves it as it is
validators_after_validate_kg(validators) == validators

\* the all_issues lists validate_kg can build with a validator list
RECURSIVE IssueLists(_, _)
IssueLists(validators, kg_turtle) ==
    IF validators = << >> THEN {<< >>}
    ELSE {process_violations(Head(validators), violations) \o rest :
            violations \in run_shacl_validation(kg_turtle, Head(validators)),
            rest \in IssueLists(Tail(validators), kg_turtle)}

\* the documents and ceilings the concurrent sessions are started with, and
\* the contents of the LLM's responses to them
WorkerDocuments ==
    { << PrefixLine, NoUidPolicy >>,
      << PrefixLine, GoodPolicy, BadConstraint >>,
      << PrefixLine, BarePolicy, GoodConstraint >> }

WorkerResponses ==
    { << FenceLine, PrefixLine, GoodPolicy, FenceLine >>,
      << PrefixLine, BarePolicy, BlankLine >> }

\* the arguments and locals of a call before its loop; 'document' keeps the
\* odrl_turtle argument as the caller supplied it
Worker(document, ceiling) ==
    [policy_text |-> "Alice can read the document until December 31, 2025",
     document |-> document, max_attempts |-> ceiling, odrl_turtle |-> document,
     attempt |-> 1, all_attempts |-> << >>, validation_result |-> None,
     attempt_info |-> None, pc |-> "while", outcome |-> None,
     llm_calls |-> 0, llm_prompts |-> << >>]

\* a worker that is at the validation pass of its loop
AtValidation(w) == w.pc = "while" /\ w.attempt <= w.max_attempts

\* self.validate(policy_text, odrl_turtle) and attempt_info, for one worker
WorkerValidated(w, all_issues) ==
    LET report == ValidationReport(w.policy_text, w.odrl_turtle,
                                   Len(all_issues) = 0, all_issues)
    IN  [w EXCEPT !.validation_result =
                      [is_valid |-> report.is_valid, validation_report |-> report],
                  !.attempt_info = AttemptInfo(w.attempt, report, w.odrl_turtle),
                  !.pc = "validated"]

\* the steps of validate_and_regenerate for one worker: the records the
\* worker can be in after its next step; a worker inside self.llm.invoke is
\* at "invoking", where the other sessions go on
WorkerSteps(w, shared) ==
    IF w.pc = "while"
    THEN IF w.attempt <= w.max_attempts
         THEN {WorkerValidated(w, all_issues) :
                 all_issues \in IssueLists(shared.validators, w.odrl_turtle)}
         ELSE {[w EXCEPT !.pc = "after_loop"]}
    ELSE IF w.pc = "validated"
    THEN LET appended == Append(w.all_attempts, w.attempt_info)
         IN  IF w.validation_result.validation_report.is_valid
             THEN {[w EXCEPT !.all_attempts = appended,
                             !.outcome = Returned(
                                 [success |-> TRUE, final_odrl |-> w.odrl_turtle,
                                  attempts |-> w.attempt,
                                  all_attempts |-> appended]),
                             !.pc = "returned"]}
             ELSE IF w.attempt = w.max_attempts
             THEN {[w EXCEPT !.all_attempts = appended, !.pc = "after_loop"]}
             ELSE {[w EXCEPT !.llm_calls = w.llm_calls + 1,
                             !.llm_prompts =
                                 Append(w.llm_prompts,
                                        to_learning_prompt(
                                            w.validation_result.validation_report)),
                             !.pc = "invoking"]}
    ELSE IF w.pc = "invoking"
    THEN {[w EXCEPT !.odrl_turtle =
                        regenerate(w.validation_result, content).odrl_turtle,
                    !.all_attempts = Append(w.all_attempts, w.attempt_info),
                    !.attempt = w.attempt + 1,
                    !.pc = "while"] : content \in WorkerResponses}
         \cup {[w EXCEPT !.outcome = Raised(LLMError), !.pc = "raised"]}
    ELSE IF w.pc = "after_loop"
    THEN IF w.attempt_info = None
         THEN {[w EXCEPT !.outcome = Raised(UnboundLocalError("attempt_info")),
                         !.pc = "raised"]}
         ELSE {[w EXCEPT !.outcome = Returned(
                             [success |-> FALSE, final_odrl |-> w.odrl_turtle,
                              attempts |-> w.max_attempts,
                              all_attempts |-> w.all_attempts,
                              final_issues |-> w.attempt_info.issues]),
                         !.pc = "returned"]}
    ELSE {}

\* what a session can end with when it runs alone
RECURSIVE AloneOutcomes(_, _)
AloneOutcomes(w, shared) ==
    IF w.pc \in {"returned", "raised"} THEN {w.outcome}
    ELSE UNION {AloneOutcomes(next, shared) : next \in WorkerSteps(w, shared)}

InitConcurrent ==
    /\ SessionIdle
    /\ reasoner_call = None
    /\ reasoner_result = None
    /\ registry = SharedConfig
    /\ workers \in {ws \in [WorkerIds ->
                              {Worker(d, c) : d \in WorkerDocuments,
                                              c \in 1..MaxWorkerCeiling}] :
                      ws[1].document # ws[2].document}

\* one step of one of the sessions; a validation pass goes through the
\* shared validator list
WorkerStep ==
    \E i \in WorkerIds :
        /\ \E next \in WorkerSteps(workers[i], registry) :
              workers' = [workers EXCEPT ![i] = next]
        /\ registry' =
              IF AtValidation(workers[i])
              THEN [registry EXCEPT
                      !.validators = validators_after_validate_kg(@)]
              ELSE registry
        /\ UNCHANGED << policy_text, max_attempts, odrl_turtle, attempt,
                        all_attempts, validation_result, attempt_info, pc,
                        outcome, validations, llm_calls, llm_prompts,
                        reasoner_call, reasoner_result, cancel_requested >>

NextConcurrent == WorkerStep

SpecConcurrent == InitConcurrent /\ [][NextConcurrent]_vars

(***************************************************************************)
(* Properties of a repair session                                          *)
(***************************************************************************)
\* the session returned a dict to its caller
HasReturned == pc = "returned"

\* the report of the latest validation pass
LastReport == validation_result.validation_report

\* a document the loop can go on with: not empty, and it parses
Usable(text) == text # << >> /\ Parses(text)

\* C1: with a ceiling of at least 1, the number of validation passes and
\* the returned 'attempts' never exceed max_attempts.
C1_AttemptsWithinCeiling ==
    max_attempts >= 1 =>
        /\ validations <= max_attempts
        /\ HasReturned => outcome.value.attempts <= max_attempts

\* a ceiling of 3 used up: three passes, and a result that says 3
C1_Witness ==
    /\ HasReturned
    /\ max_attempts = 3
    /\ validations = 3
    /\ outcome.value.attempts = 3

\* C2: a validation pass of attempt k that reports zero violations is
\* followed by the success return at attempt k, with attempts = k, without
\* another validation pass or transducer call; after the return nothing
\* more happens.
C2_ZeroViolationsReturnSuccess ==
    [][ /\ (pc = "validated" /\ Len(LastReport.issues) = 0) =>
              /\ pc' = "returned"
              /\ outcome'.kind = "return"
              /\ outcome'.value.success
              /\ outcome'.value.attempts = attempt
              /\ attempt_info.attempt = attempt
              /\ llm_calls' = llm_calls
              /\ validations' = validations
        /\ HasReturned => (llm_calls' = llm_calls /\ validations' = validations)
      ]_vars

\* success at the second attempt, after one transducer call
C2_Witness ==
    /\ HasReturned
    /\ outcome.value.success
    /\ outcome.value.attempts = 2
    /\ Len(LastReport.issues) = 0
    /\ llm_calls = 1

\* C3: with a ceiling N >= 1, a session that has left the loop after
\* validation passes that all found violations has made exactly N passes
\* and N - 1 transducer calls, and what it returns is the failure result.
C3_AlwaysInvalidExhaustsBudget ==
    (/\ max_attempts >= 1
     /\ pc \in {"after_loop", "returned"}
     /\ \A i \in 1..Len(all_attempts) : ~all_attempts[i].is_valid) =>
        /\ validations = max_attempts
        /\ llm_calls = max_attempts - 1
        /\ Len(all_attempts) = max_attempts
        /\ HasReturned => ~outcome.value.success

\* ceiling 3: three passes, two transducer calls, failure
C3_Witness ==
    /\ HasReturned
    /\ max_attempts = 3
    /\ \A i \in 1..Len(all_attempts) : Len(all_attempts[i].issues) > 0
    /\ validations = 3
    /\ llm_calls = 2
    /\ ~outcome.value.success

\* C4: the transducer is never called once the pass of the attempt at the
\* ceiling is done, so a session with a ceiling of at least 1 makes at most
\* max_attempts - 1 transducer calls (none below that); and once the loop
\* is left every regenerated document has been validated: the current
\* document is the one the last pass examined.
C4_NoRegenerationOnLastAttempt ==
    /\ llm_calls <= (IF max_attempts >= 1 THEN max_attempts - 1 ELSE 0)
    /\ (pc \in {"after_loop", "returned"} /\ validation_result # None) =>
           /\ validations = llm_calls + 1
           /\ LastReport.generated_kg = odrl_turtle

\* the pass of the attempt at the ceiling found violations, and the
\* session went to the failure result with max_attempts - 1 calls made
C4_Witness ==
    /\ pc = "after_loop"
    /\ max_attempts = 3
    /\ attempt = max_attempts
    /\ ~LastReport.is_valid
    /\ llm_calls = 2

\* C5 as claimed: the returned attempts equal the ceiling only if the last
\* validation pass found violations.
C5_CeilingOnlyWithViolations ==
    (HasReturned /\ outcome.value.attempts = max_attempts) =>
        Len(LastReport.issues) > 0

\* C5 as amended: the returned attempts equal the ceiling only if the last
\* validation pass found violations, or the session succeeded on the
\* attempt whose index is the ceiling.
C5_CeilingOnlyAtLastAttempt ==
    (HasReturned /\ outcome.value.attempts = max_attempts) =>
        \/ Len(LastReport.issues) > 0
        \/ /\ outcome.value.success
           /\ validations = max_attempts
           /\ attempt_info.attempt = max_attempts

\* a success on the attempt at the ceiling, reached after a regeneration
C5_Witness ==
    /\ HasReturned
    /\ outcome.value.attempts = max_attempts
    /\ max_attempts = 2
    /\ outcome.value.success
    /\ llm_calls = 1

\* C6: at a return, the final document is the document examined by the
\* last validation pass, and on failure final_issues is the non-empty
\* issue list of that pass.
C6_FinalDocumentAndIssues ==
    HasReturned =>
        /\ outcome.value.final_odrl = LastReport.generated_kg
        /\ ~outcome.value.success =>
              /\ outcome.value.final_issues = IssueDicts(LastReport.issues)
              /\ Len(outcome.value.final_issues) > 0

\* a failure after a regeneration, the last pass with two issues
C6_Witness ==
    /\ HasReturned
    /\ ~outcome.value.success
    /\ llm_calls >= 1
    /\ Len(outcome.value.final_issues) = 2
    /\ all_attempts[1].issues # outcome.value.final_issues

\* C7: all_attempts is append-only; the step that ends an attempt (the
\* one after the validation pass, or the one that ends the transducer call
\* when the transducer is invoked) appends exactly the record of that pass,
\* and no other step changes the sequence; at a return the sequence is as
\* long as the returned 'attempts' says.
C7_OneRecordPerPass ==
    [][ /\ (pc = "validated" /\ pc' # "invoking") =>
              all_attempts' = Append(all_attempts, attempt_info)
        /\ pc = "invoking" => all_attempts' = Append(all_attempts, attempt_info)
        /\ (pc \notin {"validated", "invoking"} \/ pc' = "invoking") =>
              all_attempts' = all_attempts
        /\ pc' = "returned" => Len(all_attempts') = outcome'.value.attempts
      ]_vars

\* C8: an error raised by the transducer at attempt k ends the session (no
\* step is enabled once the exception is out) and reaches the caller
\* annotated with the attempt index k.
C8_TransducerErrorAnnotated ==
    (pc = "raised" /\ outcome.exception.type = LLMError.type) =>
        /\ "attempt" \in DOMAIN outcome.exception
        /\ outcome.exception.attempt = attempt

\* C9: no validation pass runs on an unusable (empty or unparseable)
\* document that the transducer returned.
C9_UnusableOutputNotValidated ==
    (pc = "validated" /\ attempt > 1) => Usable(odrl_turtle)

\* C10: a document that does not parse never yields a report that is
\* handed to the transducer for a corrective regeneration.
C10_ParseFailureNotRegenerated ==
    \A i \in 1..Len(llm_prompts) : Parses(llm_prompts[i].generated_kg)

\* C11: every ValidationReport the session holds, returned by validate_kg,
\* recorded in an attempt or rendered into a prompt for the transducer, has
\* is_valid true exactly when its issue list is empty.
C11_ValidIffNoIssues ==
    /\ validation_result # None =>
          /\ LastReport.is_valid <=> (Len(LastReport.issues) = 0)
          /\ validation_result.is_valid = LastReport.is_valid
    /\ attempt_info # None =>
          (attempt_info.is_valid <=> (Len(attempt_info.issues) = 0))
    /\ \A i \in 1..Len(all_attempts) :
          all_attempts[i].is_valid <=> (Len(all_attempts[i].issues) = 0)
    /\ \A i \in 1..Len(llm_prompts) :
          /\ (llm_prompts[i].status = "VALID") <=> (llm_prompts[i].n_issues = 0)
          /\ (llm_prompts[i].n_issues = 0) <=> (Len(llm_prompts[i].sections) = 0)

\* a session that held a report with issues and then one without
C11_Witness ==
    /\ HasReturned
    /\ Len(all_attempts) = 2
    /\ ~all_attempts[1].is_valid /\ Len(all_attempts[1].issues) > 0
    /\ LastReport.is_valid /\ Len(LastReport.issues) = 0
    /\ Len(llm_prompts) = 1

\* C12: validate_kg is deterministic: two validation passes on the same
\* document, within a session or as two outcomes the validators' SHACL runs
\* can give for the current candidate, report the same issues in the same
\* order with the same content.
C12_SameDocumentSameIssues ==
    /\ \A i, j \in 1..Len(all_attempts) :
          all_attempts[i].odrl_turtle = all_attempts[j].odrl_turtle =>
              all_attempts[i].issues = all_attempts[j].issues
    /\ validation_result # None =>
          \A shacl \in ShaclRuns(LastReport.generated_kg) :
              validate_kg(policy_text, LastReport.generated_kg, shacl).issues
                  = LastReport.issues

\* C13: a session whose validation passes and transducer calls all return
\* terminates: it makes no more validation passes than the ceiling allows
\* and, with a ceiling of at least 1, eventually returns either the success
\* dict or the exhausted-budget dict, also when no regenerated document ever
\* validates; a session started with a ceiling below 1 ends without a pass.
C13_SessionTerminates ==
    /\ [](validations <= (IF max_attempts >= 1 THEN max_attempts ELSE 0))
    /\ <>(pc \in {"returned", "raised"})
    /\ (max_attempts >= 1) =>
          <>(HasReturned /\ (outcome.value.success
                              \/ Len(outcome.value.all_attempts) = max_attempts))

\* a session that never converged and still ended: the failure dict after
\* as many passes as the ceiling allows
C13_Witness ==
    /\ HasReturned
    /\ ~outcome.value.success
    /\ max_attempts = 3
    /\ validations = 3
    /\ llm_calls = 2

(***************************************************************************)
(* Properties of the conflict taxonomy and the reasoner                    *)
(***************************************************************************)
\* the call of the state was made on fn and has given its result
Called(fn) == reasoner_call.fn = fn /\ reasoner_result # None

\* the indexes of the strategies whose triggers the signal satisfies
Matching(signal) ==
    {i \in 1..Len(CONFLICT_STRATEGIES) :
        TriggersSatisfied(CONFLICT_STRATEGIES[i], signal)}

\* the strategies one of whose keyword patterns occurs in a text
KeywordMatches(text) ==
    {i \in 1..Len(CONFLICT_STRATEGIES) :
        \E k \in 1..Len(CONFLICT_STRATEGIES[i].keyword_patterns) :
            Contains(CONFLICT_STRATEGIES[i].keyword_patterns[k], text)}

\* C14: classification is first-match-wins by priority: a conflict whose
\* description hits keyword patterns of strategies of CONFLICT_STRATEGIES is
\* reported under the conflict type of the hit strategy with the smallest
\* detection_order, never under one of larger detection_order; a conflict
\* with the keyword 'urgent' is reported as unmeasurable_terms also when it
\* hits a pattern of a later strategy.  The reasoner's classification is
\* the category of the issues _parse_response returns.
C14_CategoryIsFirstMatch ==
    (Called("_parse_response") /\ reasoner_result.kind = "return") =>
        \A n \in 1..Len(reasoner_result.value.issues) :
            LET issue == reasoner_result.value.issues[n]
                hits == KeywordMatches(issue.message)
            IN  hits # {} =>
                  \E i \in hits :
                      /\ issue.category = CONFLICT_STRATEGIES[i].conflict_type
                      /\ \A j \in hits :
                            CONFLICT_STRATEGIES[i].detection_order
                                <= CONFLICT_STRATEGIES[j].detection_order

\* the response decodes to an object with a list of issues
HasIssueList(content) ==
    /\ content.type = "str"
    /\ Decodes(extract_json(content.text))
    /\ extract_json(content.text)[1].json = "object"
    /\ "issues" \in DOMAIN extract_json(content.text)[1].members
    /\ extract_json(content.text)[1].members.issues.json = "array"
    /\ \A i \in 1..Len(extract_json(content.text)[1].members.issues.items) :
          IsIssueDict(extract_json(content.text)[1].members.issues.items[i])

\* the category of an issue dict is the value of a ConflictType member
KnownCategory(issue_dict) ==
    issue_dict.category # Absent /\ HasConflictType(issue_dict.category)

\* C15: a conflict signal or category that matches no detection strategy
\* makes the classification fail, and the failure reaches the caller: a
\* signal no strategy accepts and a conflict type without a strategy give an
\* exception, and an issue whose category is no ConflictType is not dropped
\* from the result without one (the result holds an entry for every issue
\* of the response whose other fields are well-formed, or it is an
\* exception).
C15_UnmatchedIsReported ==
    /\ (Called("classify") /\ Matching(reasoner_call.arg) = {}) =>
          reasoner_result.kind = "raise"
    /\ (Called("get_detection_prompt_for_conflict_type")
            /\ StrategiesOf(reasoner_call.arg) = {}) =>
          reasoner_result.kind = "raise"
    /\ (Called("_parse_response") /\ HasIssueList(reasoner_call.arg)) =>
          LET dicts == extract_json(reasoner_call.arg.text)[1].members.issues.items
              wellFormed == {i \in 1..Len(dicts) :
                                /\ dicts[i].severity \in {"high", "low"}
                                /\ dicts[i].message # Absent}
          IN  (\E i \in wellFormed : ~KnownCategory(dicts[i])) =>
                  \/ reasoner_result.kind = "raise"
                  \/ Len(reasoner_result.value.issues) >= Cardinality(wellFormed)

\* C16: the strategy table is exhaustive and non-redundant: the lookup of
\* the strategy of any ConflictType member, as
\* get_detection_prompt_for_conflict_type does it, succeeds, and the member
\* has exactly one strategy in CONFLICT_STRATEGIES.
C16_OneStrategyPerType ==
    Called("get_detection_prompt_for_conflict_type") =>
        /\ reasoner_call.arg \in ConflictTypeMembers
        /\ Cardinality(StrategiesOf(reasoner_call.arg)) = 1
        /\ reasoner_result.kind = "return"

\* C17: the strategy priorities form a total order: no two entries of
\* CONFLICT_STRATEGIES have the same detection_order and no two have the
\* same conflict_type, so the entry a lookup finds is the only one with its
\* detection_order.
C17_PrioritiesDistinct ==
    /\ \A i, j \in 1..Len(CONFLICT_STRATEGIES) :
          i # j =>
              /\ CONFLICT_STRATEGIES[i].detection_order
                    # CONFLICT_STRATEGIES[j].detection_order
              /\ CONFLICT_STRATEGIES[i].conflict_type
                    # CONFLICT_STRATEGIES[j].conflict_type
    /\ (Called("get_detection_prompt_for_conflict_type")
            /\ reasoner_result.kind = "return") =>
          \A i \in 1..Len(CONFLICT_STRATEGIES) :
              CONFLICT_STRATEGIES[i].detection_order
                    = reasoner_result.value.detection_order
                <=> CONFLICT_STRATEGIES[i].conflict_type = reasoner_call.arg

\* the lookup of the role hierarchy strategy gave detection order 7
C17_Witness ==
    /\ Called("get_detection_prompt_for_conflict_type")
    /\ reasoner_call.arg = "ROLE_HIERARCHY"
    /\ reasoner_result.kind = "return"
    /\ reasoner_result.value.detection_order = 7
    /\ reasoner_result.value.priority = "Standard"

\* C18: the resolution_principle of the strategy that
\* get_detection_prompt_for_conflict_type finds for a conflict type is a key
\* of RESOLUTION_PRINCIPLES, and the explanation looked up for it is defined
\* and not empty.
C18_PrincipleExplained ==
    (Called("get_detection_prompt_for_conflict_type")
        /\ reasoner_result.kind = "return") =>
      /\ reasoner_result.value.resolution_principle
            \in DOMAIN RESOLUTION_PRINCIPLES
      /\ reasoner_result.value.principle # ""

(***************************************************************************)
(* Properties of a validation pass                                         *)
(***************************************************************************)
\* the graph of the document of the latest validation pass
LastGraph == Graph(LastReport.generated_kg)

\* the issues of the latest pass that are of a type and about a node
IssuesOf(type, node) ==
    {i \in 1..Len(LastReport.issues) :
        /\ LastReport.issues[i].issue_type = type
        /\ LastReport.issues[i].focus_node = node}

\* C19: a document whose Policy has at least one rule and no odrl:uid gives
\* exactly one 'Missing Policy UID' issue for the policy, with actual_value
\* "not specified", and no 'Missing Policy Rules' issue; when nothing else
\* in the document violates a shape it is the only issue of the report.
C19_MissingUidReported ==
    (validation_result # None /\ Parses(LastReport.generated_kg)) =>
        \A p \in {n \in LastGraph : n.kind = "policy"} :
            (p.uid = "none" /\ p.rules # {}) =>
                /\ Cardinality(IssuesOf("Missing Policy UID", p.node)) = 1
                /\ \A i \in IssuesOf("Missing Policy UID", p.node) :
                      /\ LastReport.issues[i].actual_value = "not specified"
                      /\ LastReport.issues[i].property_path = OdrlNs \o "uid"
                /\ IssuesOf("Missing Policy Rules", p.node) = {}
                /\ (\A c \in LastGraph \ {p} :
                        c.kind = "constraint" /\ ConstraintShapeResults(c) = {})
                      => Len(LastReport.issues) = 1
                /\ ~LastReport.is_valid

\* a pass on the policy with a permission and no uid, next to a conformant
\* constraint: one issue
C19_Witness ==
    /\ validation_result # None
    /\ LastReport.generated_kg = << PrefixLine, NoUidPolicy, GoodConstraint >>
    /\ Len(LastReport.issues) = 1
    /\ LastReport.issues[1].issue_type = "Missing Policy UID"
    /\ LastReport.issues[1].actual_value = "not specified"

\* C20: a document with a constraint whose left operand is 'count' and
\* whose operator is 'isAnyOf' gives exactly one 'Operator Compatibility'
\* issue for the constraint, and its severity is 'Warning'.
C20_IncompatibleOperatorWarned ==
    (validation_result # None /\ Parses(LastReport.generated_kg)) =>
        \A c \in {n \in LastGraph : n.kind = "constraint"} :
            (c.leftOperand = "count" /\ c.operator = "isAnyOf"
                /\ c.operator \notin get_operand(c.leftOperand).compatible_operators) =>
                /\ Cardinality(IssuesOf("Operator Compatibility", c.node)) = 1
                /\ \A i \in IssuesOf("Operator Compatibility", c.node) :
                      LastReport.issues[i].severity = "Warning"

(***************************************************************************)
(* Properties of the operand registry and of the feedback rendering        *)
(***************************************************************************)
\* C21: the operand lookup is total and agrees with the listing:
\* get_operand(name) returns without raising, gives the operand's record
\* exactly when name is among list_operands() and None otherwise, and the
\* record is the one of that name; list_operands() gives the eight names in
\* declaration order.
C21_LookupAgreesWithListing ==
    /\ Called("get_operand") =>
          /\ reasoner_result.kind = "return"
          /\ reasoner_result.value # None
                <=> reasoner_call.arg \in SeqRange(list_operands)
          /\ reasoner_result.value # None =>
                reasoner_result.value.compatible_operators
                    = OPERANDS[reasoner_call.arg]
    /\ Called("list_operands") =>
          reasoner_result =
              Returned(<< "dateTime", "count", "elapsedTime", "payAmount",
                          "percentage", "spatial", "purpose", "recipient" >>)

\* the lookup of a name that is an operator and not an operand returned
\* None
C21_Witness ==
    /\ Called("get_operand")
    /\ reasoner_call.arg = "isAnyOf"
    /\ reasoner_call.arg \notin SeqRange(list_operands)
    /\ reasoner_result = Returned(None)

\* the issue an entry of the prompt is printed from: the k-th issue of the
\* heading's type
IssuesOfType(issues, type) == SelectSeq(issues, LAMBDA x : x.issue_type = type)

\* the first position of an issue type in an issue list
FirstOccurrence(issues, type) ==
    CHOOSE i \in 1..Len(issues) :
        /\ issues[i].issue_type = type
        /\ \A j \in 1..(i - 1) : issues[j].issue_type # type

\* C22: to_learning_prompt groups the issues by issue type in encounter
\* order: the headings are the issue types of the list, each once, in the
\* order of their first occurrence; the entries under a heading are the
\* issues of that type in their order in the list, so every issue is in
\* exactly one group; and an entry has a severity line exactly when the
\* issue's severity is not 'Violation'.
C22_GroupedInEncounterOrder ==
    Called("to_learning_prompt") =>
        LET issues == reasoner_call.arg.issues
            sections == reasoner_result.value.sections
        IN  /\ {sections[g].heading : g \in 1..Len(sections)}
                  = {issues[i].issue_type : i \in 1..Len(issues)}
            /\ \A g, h \in 1..Len(sections) :
                  g < h => FirstOccurrence(issues, sections[g].heading)
                              < FirstOccurrence(issues, sections[h].heading)
            /\ \A g \in 1..Len(sections) :
                  LET members == IssuesOfType(issues, sections[g].heading)
                      entries == sections[g].entries
                  IN  /\ Len(entries) = Len(members)
                      /\ \A k \in 1..Len(entries) :
                            /\ entries[k].node = members[k].focus_node
                            /\ entries[k].property = members[k].property_path
                            /\ entries[k].current_value = members[k].actual_value
                            /\ entries[k].constraint_violated
                                  = members[k].constraint_violated
                            /\ entries[k].severity =
                                  (IF members[k].severity = "Violation"
                                   THEN Absent ELSE members[k].severity)

\* a list in which a Warning stands between two issues of one type: two
\* groups, the first with both issues of its type, the second with the
\* severity line
C22_Witness ==
    /\ Called("to_learning_prompt")
    /\ Len(reasoner_call.arg.issues) = 3
    /\ reasoner_call.arg.issues[1].focus_node = ConstraintNode2
    /\ reasoner_call.arg.issues[2].severity = "Warning"
    /\ reasoner_call.arg.issues[3].issue_type = "Missing Right Operand"
    /\ reasoner_call.arg.issues[3].focus_node = ConstraintNode
    /\ Len(reasoner_result.value.sections) = 2
    /\ Len(reasoner_result.value.sections[1].entries) = 2
    /\ reasoner_result.value.sections[1].entries[1].severity = Absent
    /\ reasoner_result.value.sections[2].entries[1].severity = "Warning"

(***************************************************************************)
(* Further properties of a repair session                                  *)
(***************************************************************************)
\* C23: a cancellation requested while an attempt is in progress is
\* honoured before the next attempt: once it is requested, no validation
\* pass of a new attempt starts.
C23_NoPassAfterCancellation ==
    [][cancel_requested => validations' = validations]_vars

(***************************************************************************)
(* Properties of concurrent repair sessions                                *)
(***************************************************************************)
\* a worker whose call has ended
Ended(w) == w.pc \in {"returned", "raised"}

\* C24: concurrent repair sessions are independent: in every interleaving
\* of the steps of two sessions on different documents, the validator
\* list, the operand registry and the strategy table stay as they were
\* loaded, and each session ends with a result it can end with when it runs
\* alone on its document.
C24_SessionsIndependent ==
    /\ registry = SharedConfig
    /\ \A i \in WorkerIds :
          Ended(workers[i]) =>
              workers[i].outcome
                  \in AloneOutcomes(Worker(workers[i].document,
                                           workers[i].max_attempts),
                                    SharedConfig)

\* both sessions have ended after interleaved steps: one succeeded on its
\* second attempt, the other used up its two attempts
C24_Witness ==
    /\ \A i \in WorkerIds : workers[i].pc = "returned"
    /\ workers[1].outcome.value.success
    /\ workers[1].outcome.value.attempts = 2
    /\ ~workers[2].outcome.value.success
    /\ Len(workers[2].outcome.value.all_attempts) = 2

\* C25: attempts are numbered consecutively from 1 and each regeneration
\* feeds the next attempt: the session starts at attempt 1; a validation
\* pass runs on the current document and records it under the current
\* attempt index, which is the number of the pass; the document changes
\* only by a transducer call, which is given the report of the attempt in
\* progress, after which the attempt index is one more and the document is
\* the cleaned response; and the record of attempt i keeps the document
\* that attempt i validated.
C25_ConsecutiveAttempts ==
    /\ attempt = 1 /\ validations = 0 /\ all_attempts = << >>
    /\ [][ /\ (pc = "while" /\ pc' = "validated") =>
                /\ attempt = validations + 1
                /\ attempt' = attempt /\ odrl_turtle' = odrl_turtle
                /\ attempt_info'.attempt = attempt
                /\ attempt_info'.odrl_turtle = odrl_turtle
                /\ validation_result'.validation_report.generated_kg = odrl_turtle
           /\ (pc = "validated" /\ pc' = "invoking") =>
                /\ llm_calls' = llm_calls + 1
                /\ llm_prompts' =
                      Append(llm_prompts,
                             to_learning_prompt(validation_result.validation_report))
                /\ llm_prompts'[llm_calls'].generated_kg = Strip(attempt_info.odrl_turtle)
           /\ (pc = "invoking" /\ pc' = "while") =>
                /\ attempt' = attempt + 1
                /\ llm_calls = attempt
                /\ \E content \in Responses : odrl_turtle' = clean_turtle(content)
                /\ all_attempts' = Append(all_attempts, attempt_info)
                /\ all_attempts'[attempt].odrl_turtle = odrl_turtle
           /\ ~(pc = "invoking" /\ pc' = "while") =>
                /\ odrl_turtle' = odrl_turtle
                /\ attempt' = attempt
         ]_vars
    /\ [](\A i \in 1..Len(all_attempts) : all_attempts[i].attempt = i)

\* the third pass, on a document other than the one the second pass
\* validated
C25_Witness ==
    /\ pc = "validated"
    /\ attempt = 3
    /\ attempt_info.attempt = 3
    /\ Len(all_attempts) = 2
    /\ all_attempts[1].odrl_turtle # all_attempts[2].odrl_turtle
    /\ all_attempts[2].odrl_turtle # attempt_info.odrl_turtle
    /\ attempt_info.odrl_turtle = odrl_turtle


\* the rule properties the sh:or of PolicyStructureShape ranges over
RuleProperties == {"permission", "prohibition", "obligation"}

\* C26: the OR rule reports only when all three branches fail: a Policy
\* with none of permission, prohibition and obligation gives exactly one
\* 'Missing Policy Rules' issue, about the policy itself and with the
\* OR-level explanation, and a Policy with at least one of them gives none.
C26_OrRuleOneIssue ==
    (validation_result # None /\ Parses(LastReport.generated_kg)) =>
        \A p \in {n \in LastGraph : n.kind = "policy"} :
            IF p.rules \cap RuleProperties = {}
            THEN /\ Cardinality(IssuesOf("Missing Policy Rules", p.node)) = 1
                 /\ \A i \in IssuesOf("Missing Policy Rules", p.node) :
                       /\ LastReport.issues[i].constraint_violated =
                            << "ODRL Policy must contain at least one Rule (permission/prohibition/obligation)" >>
                       /\ LastReport.issues[i].property_path = ""
                       /\ LastReport.issues[i].actual_value = p.node
                 /\ ~LastReport.is_valid
            ELSE IssuesOf("Missing Policy Rules", p.node) = {}

\* a pass on the policy without any rule: one 'Missing Policy Rules' issue
\* next to the issue about its missing uid
C26_Witness ==
    /\ validation_result # None
    /\ LastReport.generated_kg = << PrefixLine, BarePolicy, GoodConstraint >>
    /\ Len(LastReport.issues) = 2
    /\ Cardinality(IssuesOf("Missing Policy Rules", PolicyNode)) = 1
    /\ Cardinality(IssuesOf("Missing Policy UID", PolicyNode)) = 1


\* the number of branches of the sh:xone of ConstraintStructureShape that
\* a constraint satisfies
RightOperandBranches(c) ==
    (IF c.rightOperand THEN 1 ELSE 0) + (IF c.rightOperandReference THEN 1 ELSE 0)

\* C27: the XOR rule reports when zero or more than one branch holds: a
\* Constraint with neither rightOperand nor rightOperandReference, and one
\* with both, each gives exactly one 'Missing Right Operand' issue, and a
\* Constraint with exactly one of the two gives none.
C27_XorRuleOneIssue ==
    (validation_result # None /\ Parses(LastReport.generated_kg)) =>
        \A c \in {n \in LastGraph : n.kind = "constraint"} :
            IF RightOperandBranches(c) = 1
            THEN IssuesOf("Missing Right Operand", c.node) = {}
            ELSE /\ Cardinality(IssuesOf("Missing Right Operand", c.node)) = 1
                 /\ \A i \in IssuesOf("Missing Right Operand", c.node) :
                       LastReport.issues[i].constraint_violated =
                           << "Must have either rightOperand or rightOperandReference" >>
                 /\ ~LastReport.is_valid

\* a pass on a conformant policy next to a constraint with both a
\* rightOperand and a rightOperandReference: the one issue of the report
C27_Witness ==
    /\ validation_result # None
    /\ LastReport.generated_kg = << PrefixLine, DutyPolicy, BothRightConstraint >>
    /\ Len(LastReport.issues) = 1
    /\ LastReport.issues[1].issue_type = "Missing Right Operand"
    /\ LastReport.issues[1].focus_node = ConstraintNode

\* a pass on a constraint with neither of the two: one 'Missing Right
\* Operand' issue next to the issue about its operator
C27_WitnessNeither ==
    /\ validation_result # None
    /\ LastReport.generated_kg = << PrefixLine, GoodPolicy, BadConstraint >>
    /\ Cardinality(IssuesOf("Missing Right Operand", ConstraintNode)) = 1


\* C28: in the attempt sequence a session returns, every record but the
\* last has is_valid false and a non-empty issue list; the last record has
\* is_valid true exactly when the session returns success, and final_issues
\* is in the result exactly when it returns failure.
C28_AttemptSequenceShape ==
    HasReturned =>
        LET result == outcome.value
            records == result.all_attempts
        IN  /\ records # << >>
            /\ \A i \in 1..(Len(records) - 1) :
                  /\ ~records[i].is_valid
                  /\ records[i].issues # << >>
            /\ records[Len(records)].is_valid <=> result.success
            /\ records[Len(records)].is_valid <=> records[Len(records)].issues = << >>
            /\ ("final_issues" \in DOMAIN result) <=> ~result.success
            /\ ~result.success => result.final_issues = records[Len(records)].issues

\* a session that returns success on its third attempt, after two failed
\* ones
C28_Witness ==
    /\ HasReturned
    /\ outcome.value.success
    /\ Len(outcome.value.all_attempts) = 3
    /\ ~outcome.value.all_attempts[2].is_valid
    /\ "final_issues" \notin DOMAIN outcome.value

\* a session that returns failure after three failed attempts
C28_WitnessFailure ==
    /\ HasReturned
    /\ ~outcome.value.success
    /\ Len(outcome.value.all_attempts) = 3
    /\ outcome.value.final_issues # << >>


\* C29: with a ceiling max_attempts <= 0 the session runs no validation
\* pass and no transducer call and returns no result: the code after the
\* loop reads attempt_info, which was never bound, and the call ends in that
\* error.
C29_NonPositiveCeilingRaises ==
    /\ [](max_attempts <= 0 =>
            /\ validations = 0
            /\ llm_calls = 0
            /\ llm_prompts = << >>
            /\ all_attempts = << >>
            /\ attempt_info = None
            /\ pc \in {"while", "after_loop", "raised"}
            /\ outcome \in {None, Raised(UnboundLocalError("attempt_info"))}
            /\ (pc = "raised" <=> outcome # None))
    /\ (max_attempts <= 0) ~> (pc = "raised")

\* a session started with ceiling 0 that has ended in the error
C29_Witness ==
    /\ max_attempts = 0
    /\ pc = "raised"
    /\ outcome = Raised(UnboundLocalError("attempt_info"))
    /\ validations = 0
    /\ llm_calls = 0


\* whether a text parses to a graph without any Policy or Constraint
NoTargets(text) ==
    /\ Parses(text)
    /\ \A n \in Graph(text) : n.kind \notin {"policy", "constraint"}

\* C30: conformance is vacuous for a document without targeted entities: a
\* pass on a parseable document with no Policy and no Constraint, the empty
\* document included, gives zero issues, and the session returns success at
\* that attempt with that document as the final document.
C30_VacuousConformance ==
    /\ [](validation_result # None /\ NoTargets(LastReport.generated_kg) =>
             /\ LastReport.issues = << >>
             /\ LastReport.is_valid)
    /\ [][(pc = "validated" /\ NoTargets(odrl_turtle)) =>
             /\ pc' = "returned"
             /\ outcome'.value.success
             /\ outcome'.value.final_odrl = odrl_turtle
             /\ outcome'.value.attempts = attempt
             /\ outcome'.value.all_attempts[attempt].odrl_turtle = odrl_turtle
             /\ outcome'.value.all_attempts[attempt].issues = << >>]_vars

\* a session whose transducer answered the first attempt with a document
\* that describes an odrl:Set only, returning success at attempt 2 with it
C30_WitnessSet ==
    /\ HasReturned
    /\ outcome.value.success
    /\ outcome.value.attempts = 2
    /\ outcome.value.final_odrl = << PrefixLine, SetNode >>
    /\ ~outcome.value.all_attempts[1].is_valid

\* a session whose transducer answered the first attempt with an empty
\* document, returning success at attempt 2 with the empty document
C30_Witness ==
    /\ HasReturned
    /\ outcome.value.success
    /\ outcome.value.attempts = 2
    /\ outcome.value.final_odrl = << >>
    /\ ~outcome.value.all_attempts[1].is_valid

=============================================================================
